---- MODULE Spec2Model ----
(***************************************************************************)
(* Billy Bass assistant: provider factory, provider contracts and the      *)
(* per-turn dispatch of the orchestrator (src/providers, src/main.py).     *)
(*                                                                         *)
(* Python strings are sequences of one-character strings, so that lower(), *)
(* strip(), startswith() and slicing are computed and not assumed.         *)
(* An optional value is a record [tag, v]: tag "absent" (key not in the    *)
(* dict), "none" (Python None) or "str" (a string, v its characters).      *)
(***************************************************************************)
EXTENDS Integers, Sequences, FiniteSets, TLC

\* ------------------------------------------------------------------------
\* Bounds
\* ------------------------------------------------------------------------
MaxTurns == 2
MaxChunks == 2

\* ------------------------------------------------------------------------
\* Strings
\* ------------------------------------------------------------------------
UpperChars == <<"A","B","C","D","E","F","G","H","I","J","K","L","M",
                "N","O","P","Q","R","S","T","U","V","W","X","Y","Z">>
LowerChars == <<"a","b","c","d","e","f","g","h","i","j","k","l","m",
                "n","o","p","q","r","s","t","u","v","w","x","y","z">>

Range(s) == {s[i] : i \in DOMAIN s}

\* str.lower() on one character
LowerChar(c) ==
    IF \E i \in DOMAIN UpperChars : UpperChars[i] = c
    THEN LowerChars[CHOOSE i \in DOMAIN UpperChars : UpperChars[i] = c]
    ELSE c

\* str.lower()
Lower(s) == [i \in DOMAIN s |-> LowerChar(s[i])]

IsSpace(c) == c \in {" ", "\n", "\t"}

RECURSIVE LStrip(_)
LStrip(s) == IF s # <<>> /\ IsSpace(Head(s)) THEN LStrip(Tail(s)) ELSE s

RECURSIVE RStrip(_)
RStrip(s) ==
    IF s # <<>> /\ IsSpace(s[Len(s)]) THEN RStrip(SubSeq(s, 1, Len(s) - 1)) ELSE s

\* str.strip()
Strip(s) == RStrip(LStrip(s))

\* str.startswith(p)
StartsWith(s, p) == Len(s) >= Len(p) /\ SubSeq(s, 1, Len(p)) = p

\* s[n:]
SliceFrom(s, n) == SubSeq(s, n + 1, Len(s))

\* ------------------------------------------------------------------------
\* Optional values and config dicts
\* ------------------------------------------------------------------------
Absent == [tag |-> "absent", v |-> <<>>]
None == [tag |-> "none", v |-> <<>>]
Str(s) == [tag |-> "str", v |-> s]

\* dict.get(key, default): a key that is present with value None yields None
Get(config, key, default) ==
    IF config[key].tag = "absent" THEN default ELSE config[key]

\* Python truthiness of an optional string
Truthy(x) == x.tag = "str" /\ x.v # <<>>

\* ------------------------------------------------------------------------
\* Provider names
\* ------------------------------------------------------------------------
N_openai == <<"o","p","e","n","a","i">>
N_ollama == <<"o","l","l","a","m","a">>
N_kobold == <<"k","o","b","o","l","d">>
N_chatterai == <<"c","h","a","t","t","e","r","a","i">>
N_xtt == <<"x","t","t">>

\* ProviderFactory.LLM_PROVIDERS, in insertion order: <<name, class>>
LLM_PROVIDERS ==
    << <<N_openai, "OpenAIProvider">>,
       <<N_ollama, "OllamaProvider">>,
       <<N_kobold, "KoboldProvider">> >>

\* ProviderFactory.VOICE_PROVIDERS, in insertion order: <<name, class>>
VOICE_PROVIDERS ==
    << <<N_openai, "OpenAIVoiceProvider">>,
       <<N_chatterai, "ChatterAIVoiceProvider">>,
       <<N_xtt, "XTTVoiceProvider">> >>

\* list(registry.keys())
Keys(registry) == [i \in DOMAIN registry |-> registry[i][1]]

\* name in registry
InRegistry(name, registry) == \E i \in DOMAIN registry : registry[i][1] = name

\* registry[name]
Lookup(name, registry) ==
    registry[CHOOSE i \in DOMAIN registry : registry[i][1] = name][2]

\* ------------------------------------------------------------------------
\* Provider initialisation
\* ------------------------------------------------------------------------
\* What the backend does with a reachability probe (session.get):
\* HTTP 200 with a readable body, another status, or an exception
\* (connection refused, unreadable body).
ProbeOutcomes == {"ok200", "non200", "exception"}

\* The request f"{api_url}/..." when api_url is None or empty has no host:
\* the HTTP client raises instead of answering.
ProbeAt(api_url, probe) == IF Truthy(api_url) THEN probe ELSE "exception"

InitTrue == [ret |-> "True", exc |-> "none"]
InitFalse == [ret |-> "False", exc |-> "none"]
InitRaise(e) == [ret |-> "raise", exc |-> e]

M_default == <<"d">>
U_default == <<"h">>

\* OpenAIProvider.initialize: the key is required; "gpt-5" in self.model.lower()
\* runs on whatever config['model'] holds, None included.
OpenAIProvider_initialize(config, probe) ==
    LET api_key == Get(config, "api_key", None)
        model == Get(config, "model", Str(M_default))
    IN  IF ~Truthy(api_key) THEN InitFalse
        ELSE IF model.tag # "str" THEN InitRaise("AttributeError")
        ELSE InitTrue

\* KoboldProvider.initialize: probe of {api_url}/api/v1/model inside try/except
KoboldProvider_initialize(config, probe) ==
    LET api_url == Get(config, "api_url", Str(U_default))
    IN  IF ProbeAt(api_url, probe) = "ok200" THEN InitTrue ELSE InitFalse

\* OllamaProvider.initialize (the class is imported by the factory; its file is
\* not part of the sources): base URL required, then a reachability probe.
OllamaProvider_initialize(config, probe) ==
    LET api_url == Get(config, "api_url", None)
    IN  IF ~Truthy(api_url) THEN InitFalse
        ELSE IF probe = "ok200" THEN InitTrue ELSE InitFalse

\* self.api_url of a voice provider after initialize(config); the default
\* literal of each class is the token U_default
VoiceProvider_api_url(config) == Get(config, "api_url", Str(U_default))

\* OpenAIVoiceProvider.initialize: key required, then probe of {api_url}/models
OpenAIVoiceProvider_initialize(config, probe) ==
    LET api_key == Get(config, "api_key", None)
        api_url == VoiceProvider_api_url(config)
    IN  IF ~Truthy(api_key) THEN InitFalse
        ELSE IF ProbeAt(api_url, probe) = "ok200" THEN InitTrue ELSE InitFalse

\* ChatterAIVoiceProvider.initialize: key required, then probe of /api/v1/voices
ChatterAIVoiceProvider_initialize(config, probe) ==
    LET api_url == Get(config, "api_url", Str(U_default))
        api_key == Get(config, "api_key", None)
    IN  IF ~Truthy(api_key) THEN InitFalse
        ELSE IF ProbeAt(api_url, probe) = "ok200" THEN InitTrue ELSE InitFalse

\* XTTVoiceProvider.initialize: key optional, probe of /api/v1/voices
XTTVoiceProvider_initialize(config, probe) ==
    LET api_url == Get(config, "api_url", Str(U_default))
    IN  IF ProbeAt(api_url, probe) = "ok200" THEN InitTrue ELSE InitFalse

\* provider.initialize(config), dispatched on the instance's class
initialize(class, config, probe) ==
    CASE class = "OpenAIProvider" -> OpenAIProvider_initialize(config, probe)
      [] class = "OllamaProvider" -> OllamaProvider_initialize(config, probe)
      [] class = "KoboldProvider" -> KoboldProvider_initialize(config, probe)
      [] class = "OpenAIVoiceProvider" -> OpenAIVoiceProvider_initialize(config, probe)
      [] class = "ChatterAIVoiceProvider" -> ChatterAIVoiceProvider_initialize(config, probe)
      [] class = "XTTVoiceProvider" -> XTTVoiceProvider_initialize(config, probe)

\* ------------------------------------------------------------------------
\* ProviderFactory.create_*
\* ------------------------------------------------------------------------
NoError == [kind |-> "none", name |-> <<>>, available |-> <<>>]

\* The outcome of one create_* call: what the caller gets (instance or error)
\* and what was done on the way (class instantiated, initialize called).
Pending ==
    [outcome |-> "pending", instance |-> "none", error |-> NoError,
     instantiated |-> "none", init_called |-> FALSE, init_ret |-> "none"]

Raised(kind, name, available, cls, r) ==
    [outcome |-> "raised", instance |-> "none",
     error |-> [kind |-> kind, name |-> name, available |-> available],
     instantiated |-> cls, init_called |-> (cls # "none"), init_ret |-> r]

Returned(cls) ==
    [outcome |-> "returned", instance |-> cls, error |-> NoError,
     instantiated |-> cls, init_called |-> TRUE, init_ret |-> "True"]

\* Variant of create_llm_provider that looks the name up as written
create_llm_provider_NoLower(config, probe) ==
    LET raw == Get(config, "provider", Str(N_openai))
    IN  IF raw.tag # "str"
        THEN Raised("AttributeError", <<>>, <<>>, "none", "none")
        ELSE
          LET provider_name == raw.v
          IN  IF ~InRegistry(provider_name, LLM_PROVIDERS)
              THEN Raised("ValueError", provider_name, Keys(LLM_PROVIDERS),
                          "none", "none")
              ELSE
                LET provider_class == Lookup(provider_name, LLM_PROVIDERS)
                    r == initialize(provider_class, config, probe)
                IN  CASE r.ret = "True" -> Returned(provider_class)
                      [] r.ret = "False" ->
                           Raised("ConnectionError", provider_name, <<>>,
                                  provider_class, "False")
                      [] r.ret = "raise" ->
                           Raised(r.exc, <<>>, <<>>, provider_class, "raise")

\* config.get('provider', 'openai').lower(); None has no lower()
create_llm_provider(config, probe) ==
    LET raw == Get(config, "provider", Str(N_openai))
    IN  IF raw.tag # "str"
        THEN Raised("AttributeError", <<>>, <<>>, "none", "none")
        ELSE
          LET provider_name == Lower(raw.v)
          IN  IF ~InRegistry(provider_name, LLM_PROVIDERS)
              THEN Raised("ValueError", provider_name, Keys(LLM_PROVIDERS),
                          "none", "none")
              ELSE
                LET provider_class == Lookup(provider_name, LLM_PROVIDERS)
                    r == initialize(provider_class, config, probe)
                IN  CASE r.ret = "True" -> Returned(provider_class)
                      [] r.ret = "False" ->
                           Raised("ConnectionError", provider_name, <<>>,
                                  provider_class, "False")
                      [] r.ret = "raise" ->
                           Raised(r.exc, <<>>, <<>>, provider_class, "raise")

\* Variant of create_voice_provider that reports the other registry's names
create_voice_provider_LLMKeys(config, probe) ==
    LET raw == Get(config, "provider", Str(N_openai))
    IN  IF raw.tag # "str"
        THEN Raised("AttributeError", <<>>, <<>>, "none", "none")
        ELSE
          LET provider_name == Lower(raw.v)
          IN  IF ~InRegistry(provider_name, VOICE_PROVIDERS)
              THEN Raised("ValueError", provider_name, Keys(LLM_PROVIDERS),
                          "none", "none")
              ELSE
                LET provider_class == Lookup(provider_name, VOICE_PROVIDERS)
                    r == initialize(provider_class, config, probe)
                IN  CASE r.ret = "True" -> Returned(provider_class)
                      [] r.ret = "False" ->
                           Raised("ConnectionError", provider_name, <<>>,
                                  provider_class, "False")
                      [] r.ret = "raise" ->
                           Raised(r.exc, <<>>, <<>>, provider_class, "raise")

create_voice_provider(config, probe) ==
    LET raw == Get(config, "provider", Str(N_openai))
    IN  IF raw.tag # "str"
        THEN Raised("AttributeError", <<>>, <<>>, "none", "none")
        ELSE
          LET provider_name == Lower(raw.v)
          IN  IF ~InRegistry(provider_name, VOICE_PROVIDERS)
              THEN Raised("ValueError", provider_name, Keys(VOICE_PROVIDERS),
                          "none", "none")
              ELSE
                LET provider_class == Lookup(provider_name, VOICE_PROVIDERS)
                    r == initialize(provider_class, config, probe)
                IN  CASE r.ret = "True" -> Returned(provider_class)
                      [] r.ret = "False" ->
                           Raised("ConnectionError", provider_name, <<>>,
                                  provider_class, "False")
                      [] r.ret = "raise" ->
                           Raised(r.exc, <<>>, <<>>, provider_class, "raise")

\* ------------------------------------------------------------------------
\* ProviderFactory.validate_*
\* ------------------------------------------------------------------------
\* What a validate_* call returns; no class is instantiated on the way
Validated(ok) ==
    [outcome |-> IF ok THEN "valid" ELSE "invalid", instance |-> "none",
     error |-> NoError, instantiated |-> "none", init_called |-> FALSE,
     init_ret |-> "none"]

\* ProviderFactory.validate_llm_config
validate_llm_config(config) ==
    LET raw == Get(config, "provider", Str(N_openai))
    IN  IF raw.tag # "str"
        THEN Raised("AttributeError", <<>>, <<>>, "none", "none")
        ELSE
          LET provider_name == Lower(raw.v)
          IN  IF provider_name = N_openai
              THEN Validated(Truthy(Get(config, "api_key", None)))
              ELSE IF provider_name = N_ollama
              THEN Validated(Truthy(Get(config, "api_url", None)))
              ELSE IF provider_name = N_kobold
              THEN Validated(Truthy(Get(config, "api_url", None)))
              ELSE Validated(FALSE)

\* ProviderFactory.validate_voice_config
validate_voice_config(config) ==
    LET raw == Get(config, "provider", Str(N_openai))
    IN  IF raw.tag # "str"
        THEN Raised("AttributeError", <<>>, <<>>, "none", "none")
        ELSE
          LET provider_name == Lower(raw.v)
          IN  IF provider_name = N_openai
              THEN Validated(Truthy(Get(config, "api_key", None)))
              ELSE IF provider_name \in {N_chatterai, N_xtt}
              THEN Validated(Truthy(Get(config, "api_url", None)))
              ELSE Validated(FALSE)

\* ------------------------------------------------------------------------
\* Response chunks
\* ------------------------------------------------------------------------
\* {"type": ..., "text": ..., "done": ...} / {"type": "error", "message": ...};
\* done is chunk.get("done", False), so an error chunk reads as not done.
TextDelta(text, done) ==
    [type |-> "text_delta", text |-> text, done |-> done, message |-> "none"]
TextComplete(text, done) ==
    [type |-> "text_complete", text |-> text, done |-> done, message |-> "none"]
ErrorChunk(message) ==
    [type |-> "error", text |-> <<>>, done |-> FALSE, message |-> message]
NoChunk == [type |-> "none", text |-> <<>>, done |-> FALSE, message |-> "none"]

\* get_model_type of each provider class; the Ollama provider is the
\* incremental-streaming one of the documentation.
OpenAIProvider_get_model_type == "REALTIME"
OllamaProvider_get_model_type == "STREAMING"
KoboldProvider_get_model_type == "REQUEST_RESPONSE"

\* self.llm_provider.get_model_type()
get_model_type(class) ==
    CASE class = "OpenAIProvider" -> OpenAIProvider_get_model_type
      [] class = "OllamaProvider" -> OllamaProvider_get_model_type
      [] class = "KoboldProvider" -> KoboldProvider_get_model_type

\* ------------------------------------------------------------------------
\* KoboldProvider
\* ------------------------------------------------------------------------
UserPrefix == <<"U","s","e","r",":"," ">>
AssistantTag == <<"A","s","s","i","s","t","a","n","t",":">>
AssistantPrefix == AssistantTag \o <<" ">>
AssistantSuffix == <<"\n">> \o AssistantTag
DefaultMaxContext == 2048

\* "\n".join(lines)
RECURSIVE Join(_)
Join(lines) ==
    IF lines = <<>> THEN <<>>
    ELSE IF Len(lines) = 1 THEN lines[1]
    ELSE lines[1] \o <<"\n">> \o Join(Tail(lines))

\* s.split('\n')
RECURSIVE Split(_)
Split(s) ==
    IF \A i \in DOMAIN s : s[i] # "\n" THEN <<s>>
    ELSE LET k == CHOOSE i \in DOMAIN s :
                      s[i] = "\n" /\ \A j \in 1..(i - 1) : s[j] # "\n"
         IN  <<SubSeq(s, 1, k - 1)>> \o Split(SubSeq(s, k + 1, Len(s)))

\* Variant of PopOldest that removes the second element, keeping the first
RECURSIVE PopOldest_SecondLine(_, _)
PopOldest_SecondLine(lines, max_context) ==
    IF Len(Join(lines)) > max_context /\ Len(lines) > 2
    THEN PopOldest_SecondLine(<<lines[1]>> \o Tail(Tail(lines)), max_context)
    ELSE lines

\* while len('\n'.join(lines)) > max_context and len(lines) > 2: lines.pop(0)
RECURSIVE PopOldest(_, _)
PopOldest(lines, max_context) ==
    IF Len(Join(lines)) > max_context /\ Len(lines) > 2
    THEN PopOldest(Tail(lines), max_context)
    ELSE lines

\* Variant of Truncate that removes one element before it looks at the floor
Truncate_DropsFirst(prompt, max_context) ==
    IF Len(prompt) > max_context
    THEN Join(PopOldest(Tail(Split(prompt)), max_context))
    ELSE prompt

\* The truncation step of get_response_stream on a prompt
Truncate(prompt, max_context) ==
    IF Len(prompt) > max_context
    THEN Join(PopOldest(Split(prompt), max_context))
    ELSE prompt

\* The prompt sent to the backend for a history
KoboldPrompt(history, max_context) ==
    Truncate(Join(history) \o AssistantSuffix, max_context)

\* Variant of Kobold_send_message that puts the message first
Kobold_send_message_Prepends(history, message) ==
    <<UserPrefix \o message>> \o history

\* KoboldProvider.send_message
Kobold_send_message(history, message) == Append(history, UserPrefix \o message)

\* What the backend does with the generate request: 200 with a text, 200 with
\* a body the code cannot read (no JSON, empty results, text not a string),
\* another status, or a transport failure.
KoboldReplies ==
    { <<>>, <<" ">>, <<"a">>, <<" ","a"," ">>,
      AssistantTag \o <<" ","a">>, AssistantTag }
KoboldBackend ==
    {[kind |-> "ok", text |-> r] : r \in KoboldReplies}
    \cup {[kind |-> k, text |-> <<>>] : k \in {"malformed", "non200", "connfail"}}

\* Variant of KoboldClean that keeps an echoed "Assistant:"
KoboldClean_KeepsEcho(raw) == Strip(raw)

\* response_text after strip() and removal of an echoed "Assistant:"
KoboldClean(raw) ==
    LET response_text == Strip(raw)
    IN  IF response_text # <<>> /\ StartsWith(response_text, AssistantTag)
        THEN Strip(SliceFrom(response_text, 10))
        ELSE response_text

\* The history after get_response_stream has handled the backend's answer
Kobold_history_after(history, backend) ==
    IF backend.kind = "ok" /\ Strip(backend.text) # <<>>
    THEN Append(history, AssistantPrefix \o KoboldClean(backend.text))
    ELSE history

\* Variant of Kobold_get_response_stream that yields only a non-empty reply
Kobold_get_response_stream_YieldInIf(backend) ==
    CASE backend.kind = "ok" ->
           IF Strip(backend.text) # <<>>
           THEN <<TextComplete(KoboldClean(backend.text), TRUE)>>
           ELSE <<>>
      [] backend.kind = "malformed" -> <<ErrorChunk("connection")>>
      [] backend.kind = "non200" -> <<ErrorChunk("server")>>
      [] backend.kind = "connfail" -> <<ErrorChunk("connection")>>

\* The chunks one get_response_stream() yields, by the backend's answer
Kobold_get_response_stream(backend) ==
    CASE backend.kind = "ok" -> <<TextComplete(KoboldClean(backend.text), TRUE)>>
      [] backend.kind = "malformed" -> <<ErrorChunk("connection")>>
      [] backend.kind = "non200" -> <<ErrorChunk("server")>>
      [] backend.kind = "connfail" -> <<ErrorChunk("connection")>>

\* ------------------------------------------------------------------------
\* OllamaProvider (incremental streaming; contract of the specification)
\* ------------------------------------------------------------------------
\* The chunks a stream may hold: text fragments (blank ones too), the closing
\* chunk with done set, chunks of another kind, an error.
OllamaChunks ==
    { TextDelta(<<" ">>, FALSE), TextDelta(<<"a">>, FALSE),
      TextDelta(<<"a">>, TRUE), TextDelta(<<>>, TRUE),
      TextComplete(<<"a">>, FALSE), TextComplete(<<"a">>, TRUE),
      ErrorChunk("backend") }

\* ------------------------------------------------------------------------
\* Configuration resolution: the process environment
\* ------------------------------------------------------------------------
\* The variables the two resolvers (main.py, core/config.py) read
EnvVars ==
    {"LLM_PROVIDER", "OLLAMA_HOST", "OLLAMA_URL", "KOBOLD_URL", "KOBOLD_HOST",
     "LLM_API_URL", "LLM_MODEL", "OLLAMA_MODEL", "OPENAI_MODEL",
     "OPENAI_API_KEY", "OPENAI_API_URL", "KOBOLD_API_KEY", "OLLAMA_API_KEY",
     "VOICE_PROVIDER", "CHATTERAI_API_KEY", "XTT_API_URL", "XTT_HOST",
     "VOICE_API_URL", "CHATTERAI_URL", "OPENAI_VOICE_API_KEY",
     "OPENAI_VOICE_API_URL", "XTT_API_KEY", "VOICE", "OPENAI_VOICE_MODEL",
     "CHATTERAI_MODEL", "XTT_MODEL"}

\* os.getenv(key)
getenv(env, key) == IF env[key].tag = "absent" THEN None ELSE env[key]

\* os.getenv(key, default): a variable set to "" yields "", not the default
getenv_default(env, key, default) ==
    IF env[key].tag = "absent" THEN default ELSE env[key]

\* a or b
Or(a, b) == IF Truthy(a) THEN a ELSE b

\* sub in s
Contains(s, sub) ==
    \E i \in 1..(Len(s) - Len(sub) + 1) : SubSeq(s, i, i + Len(sub) - 1) = sub

\* f"http://{host}" if "://" not in host else host
WithScheme(host) ==
    IF ~Contains(host, <<":", "/", "/">>)
    THEN <<"h", "t", "t", "p", ":", "/", "/">> \o host
    ELSE host

\* The default literals of the resolvers and providers, each one token
Default ==
    [openai_model |-> <<"gpt-4o-mini-realtime-preview">>,
     ollama_model |-> <<"llama3.2:latest">>,
     kobold_model |-> <<"kobold">>,
     ollama_url |-> <<"http://localhost:11434">>,
     kobold_url |-> <<"http://localhost:5000">>,
     chatterai_url |-> <<"https://api.chatterai.com">>,
     xtt_url |-> <<"http://localhost:8080">>,
     openai_voice |-> <<"ash">>,
     chatterai_voice |-> <<"natural">>,
     xtt_voice |-> <<"default">>,
     openai_voice_model |-> <<"tts-1">>,
     speed |-> <<"1.0">>]

LLMConfig(provider, model, api_key, api_url) ==
    [provider |-> provider, model |-> model, api_key |-> api_key,
     api_url |-> api_url]

VoiceConfig(provider, voice, model, api_key, api_url) ==
    [provider |-> provider, voice |-> voice, model |-> model,
     api_key |-> api_key, api_url |-> api_url]

\* ------------------------------------------------------------------------
\* The resolver of main.py
\* ------------------------------------------------------------------------
\* Variant of main_detect_llm_provider that looks at the hints first
main_detect_llm_provider_HintsFirst(env) ==
    IF Truthy(getenv(env, "OLLAMA_HOST")) \/ Truthy(getenv(env, "OLLAMA_URL"))
    THEN N_ollama
    ELSE IF Truthy(getenv(env, "KOBOLD_URL")) THEN N_kobold
    ELSE IF Truthy(getenv(env, "LLM_PROVIDER"))
    THEN Lower(getenv(env, "LLM_PROVIDER").v)
    ELSE N_openai

\* main.detect_llm_provider
main_detect_llm_provider(env) ==
    IF Truthy(getenv(env, "LLM_PROVIDER"))
    THEN Lower(getenv(env, "LLM_PROVIDER").v)
    ELSE IF Truthy(getenv(env, "OLLAMA_HOST")) \/ Truthy(getenv(env, "OLLAMA_URL"))
    THEN N_ollama
    ELSE IF Truthy(getenv(env, "KOBOLD_URL")) THEN N_kobold
    ELSE N_openai

\* main.detect_voice_provider
main_detect_voice_provider(env) ==
    IF Truthy(getenv(env, "VOICE_PROVIDER"))
    THEN Lower(getenv(env, "VOICE_PROVIDER").v)
    ELSE IF Truthy(getenv(env, "CHATTERAI_API_KEY")) THEN N_chatterai
    ELSE IF Truthy(getenv(env, "XTT_API_URL")) THEN N_xtt
    ELSE N_openai

\* main.load_config, the language-model part
load_config_llm(env) ==
    LET llm_provider == main_detect_llm_provider(env)
    IN  IF llm_provider = N_openai
        THEN LLMConfig(Str(N_openai),
                       getenv_default(env, "OPENAI_MODEL", Str(Default.openai_model)),
                       getenv(env, "OPENAI_API_KEY"),
                       getenv(env, "OPENAI_API_URL"))
        ELSE IF llm_provider = N_ollama
        THEN LET a == Or(getenv(env, "LLM_API_URL"), getenv(env, "OLLAMA_URL"))
                 api_url ==
                    IF ~Truthy(a) /\ Truthy(getenv(env, "OLLAMA_HOST"))
                    THEN Str(WithScheme(getenv(env, "OLLAMA_HOST").v))
                    ELSE a
             IN  LLMConfig(Str(N_ollama),
                           getenv_default(env, "LLM_MODEL",
                               getenv_default(env, "OLLAMA_MODEL",
                                              Str(Default.ollama_model))),
                           None,
                           Or(api_url, Str(Default.ollama_url)))
        ELSE IF llm_provider = N_kobold
        THEN LLMConfig(Str(N_kobold),
                       Str(Default.kobold_model),
                       getenv(env, "KOBOLD_API_KEY"),
                       getenv_default(env, "LLM_API_URL",
                           getenv_default(env, "KOBOLD_URL", Str(Default.kobold_url))))
        ELSE LLMConfig(Str(N_openai), Str(Default.openai_model), None, None)

\* main.load_config, the voice part
load_config_voice(env) ==
    LET voice_provider == main_detect_voice_provider(env)
    IN  IF voice_provider = N_openai
        THEN VoiceConfig(Str(N_openai),
                         getenv_default(env, "VOICE", Str(Default.openai_voice)),
                         getenv_default(env, "OPENAI_VOICE_MODEL",
                                        Str(Default.openai_voice_model)),
                         getenv_default(env, "OPENAI_VOICE_API_KEY",
                                        getenv(env, "OPENAI_API_KEY")),
                         getenv(env, "OPENAI_VOICE_API_URL"))
        ELSE IF voice_provider = N_chatterai
        THEN VoiceConfig(Str(N_chatterai),
                         getenv_default(env, "VOICE", Str(Default.chatterai_voice)),
                         getenv_default(env, "CHATTERAI_MODEL",
                                        Str(Default.chatterai_voice)),
                         getenv(env, "CHATTERAI_API_KEY"),
                         getenv_default(env, "VOICE_API_URL",
                             getenv_default(env, "CHATTERAI_URL",
                                            Str(Default.chatterai_url))))
        ELSE IF voice_provider = N_xtt
        THEN VoiceConfig(Str(N_xtt),
                         getenv_default(env, "VOICE", Str(Default.xtt_voice)),
                         getenv_default(env, "XTT_MODEL", Str(Default.xtt_voice)),
                         getenv(env, "XTT_API_KEY"),
                         getenv_default(env, "VOICE_API_URL",
                             getenv_default(env, "XTT_API_URL", Str(Default.xtt_url))))
        ELSE VoiceConfig(Str(N_openai), Str(Default.openai_voice),
                         Str(Default.openai_voice_model), None, None)

\* main.load_config
load_config(env) ==
    [llm |-> load_config_llm(env), voice |-> load_config_voice(env)]

\* ------------------------------------------------------------------------
\* The resolver of core/config.py
\* ------------------------------------------------------------------------
\* The module-level OPENAI_API_KEY, OPENAI_MODEL and VOICE
OPENAI_API_KEY(env) == getenv_default(env, "OPENAI_API_KEY", Str(<<>>))
OPENAI_MODEL(env) == getenv_default(env, "OPENAI_MODEL", Str(Default.openai_model))
VOICE(env) == getenv_default(env, "VOICE", Str(Default.openai_voice))

\* core.config.detect_llm_provider
detect_llm_provider(env) ==
    IF Truthy(getenv(env, "LLM_PROVIDER"))
    THEN Lower(getenv(env, "LLM_PROVIDER").v)
    ELSE IF \/ Truthy(getenv(env, "OLLAMA_HOST"))
            \/ Truthy(getenv(env, "OLLAMA_URL"))
            \/ Truthy(getenv(env, "LLM_API_URL"))
    THEN N_ollama
    ELSE IF Truthy(getenv(env, "KOBOLD_URL")) \/ Truthy(getenv(env, "KOBOLD_HOST"))
    THEN N_kobold
    ELSE N_openai

\* os.getenv("VOICE_API_URL") and word in os.getenv("VOICE_API_URL", "").lower()
VoiceUrlNames(env, word) ==
    /\ Truthy(getenv(env, "VOICE_API_URL"))
    /\ Contains(Lower(getenv_default(env, "VOICE_API_URL", Str(<<>>)).v), word)

\* core.config.detect_voice_provider
detect_voice_provider(env) ==
    IF Truthy(getenv(env, "VOICE_PROVIDER"))
    THEN Lower(getenv(env, "VOICE_PROVIDER").v)
    ELSE IF Truthy(getenv(env, "CHATTERAI_API_KEY"))
            \/ VoiceUrlNames(env, <<"c", "h", "a", "t", "t", "e", "r">>)
    THEN N_chatterai
    ELSE IF \/ Truthy(getenv(env, "XTT_API_URL"))
            \/ Truthy(getenv(env, "XTT_HOST"))
            \/ VoiceUrlNames(env, N_xtt)
    THEN N_xtt
    ELSE N_openai

\* core.config.get_llm_model
get_llm_model(env, provider) ==
    IF provider = N_openai THEN OPENAI_MODEL(env)
    ELSE IF provider = N_ollama
    THEN Or(getenv(env, "LLM_MODEL"),
            getenv_default(env, "OLLAMA_MODEL", Str(Default.ollama_model)))
    ELSE IF provider = N_kobold
    THEN getenv_default(env, "LLM_MODEL", Str(Default.kobold_model))
    ELSE OPENAI_MODEL(env)

\* core.config.get_llm_api_key
get_llm_api_key(env, provider) ==
    IF provider = N_openai THEN OPENAI_API_KEY(env)
    ELSE IF provider = N_ollama THEN getenv(env, "OLLAMA_API_KEY")
    ELSE IF provider = N_kobold THEN getenv(env, "KOBOLD_API_KEY")
    ELSE OPENAI_API_KEY(env)

\* Variant of get_llm_api_url that puts "http://" before every host value
get_llm_api_url_AlwaysPrefix(env, provider) ==
    IF provider = N_openai THEN None
    ELSE IF provider = N_ollama
    THEN IF Truthy(getenv(env, "LLM_API_URL")) THEN getenv(env, "LLM_API_URL")
         ELSE IF Truthy(getenv(env, "OLLAMA_URL")) THEN getenv(env, "OLLAMA_URL")
         ELSE IF Truthy(getenv(env, "OLLAMA_HOST"))
         THEN Str(<<"h", "t", "t", "p", ":", "/", "/">>
                  \o getenv(env, "OLLAMA_HOST").v)
         ELSE Str(Default.ollama_url)
    ELSE IF provider = N_kobold
    THEN Or(getenv(env, "LLM_API_URL"),
            getenv_default(env, "KOBOLD_URL", Str(Default.kobold_url)))
    ELSE None

\* core.config.get_llm_api_url
get_llm_api_url(env, provider) ==
    IF provider = N_openai THEN None
    ELSE IF provider = N_ollama
    THEN IF Truthy(getenv(env, "LLM_API_URL")) THEN getenv(env, "LLM_API_URL")
         ELSE IF Truthy(getenv(env, "OLLAMA_URL")) THEN getenv(env, "OLLAMA_URL")
         ELSE IF Truthy(getenv(env, "OLLAMA_HOST"))
         THEN Str(WithScheme(getenv(env, "OLLAMA_HOST").v))
         ELSE Str(Default.ollama_url)
    ELSE IF provider = N_kobold
    THEN Or(getenv(env, "LLM_API_URL"),
            getenv_default(env, "KOBOLD_URL", Str(Default.kobold_url)))
    ELSE None

\* core.config.get_voice_api_key
get_voice_api_key(env, provider) ==
    IF provider = N_openai THEN OPENAI_API_KEY(env)
    ELSE IF provider = N_chatterai THEN getenv(env, "CHATTERAI_API_KEY")
    ELSE IF provider = N_xtt THEN getenv(env, "XTT_API_KEY")
    ELSE OPENAI_API_KEY(env)

\* core.config.get_voice_api_url
get_voice_api_url(env, provider) ==
    IF provider = N_openai THEN None
    ELSE IF provider = N_chatterai
    THEN Or(getenv(env, "VOICE_API_URL"),
            getenv_default(env, "CHATTERAI_URL", Str(Default.chatterai_url)))
    ELSE IF provider = N_xtt
    THEN Or(getenv(env, "VOICE_API_URL"),
            Or(getenv(env, "XTT_API_URL"),
               getenv_default(env, "XTT_HOST", Str(Default.xtt_url))))
    ELSE None

\* core.config.load_billy_config; its VoiceConfig has no model field
load_billy_config(env) ==
    LET llm_provider == detect_llm_provider(env)
        voice_provider == detect_voice_provider(env)
    IN  [llm |-> LLMConfig(Str(llm_provider),
                           get_llm_model(env, llm_provider),
                           get_llm_api_key(env, llm_provider),
                           get_llm_api_url(env, llm_provider)),
         voice |-> VoiceConfig(Str(voice_provider),
                               VOICE(env),
                               Absent,
                               get_voice_api_key(env, voice_provider),
                               get_voice_api_url(env, voice_provider))]

\* ------------------------------------------------------------------------
\* Voice providers: text_to_speech
\* ------------------------------------------------------------------------
VoiceClasses ==
    {"OpenAIVoiceProvider", "ChatterAIVoiceProvider", "XTTVoiceProvider"}

\* get_supported_voices(), each voice one token
get_supported_voices(class) ==
    CASE class = "OpenAIVoiceProvider" ->
           << <<"alloy">>, <<"echo">>, <<"fable">>, <<"onyx">>, <<"nova">>,
              <<"shimmer">>, <<"ash">>, <<"ballad">>, <<"coral">>, <<"sage">>,
              <<"verse">> >>
      [] class = "ChatterAIVoiceProvider" ->
           << <<"natural">>, <<"expressive">>, <<"calm">>, <<"energetic">>,
              <<"professional">>, <<"friendly">> >>
      [] class = "XTTVoiceProvider" ->
           << <<"default">>, <<"female">>, <<"male">>, <<"robotic">>,
              <<"natural">>, <<"expressive">> >>

\* The voice a provider sends when voice_params has no 'voice': the literal
\* 'ash' for OpenAI, self.model for ChatterAI and XTT
DefaultVoice(class, model) ==
    IF class = "OpenAIVoiceProvider" THEN Str(Default.openai_voice) ELSE model

\* The payload of the synthesis request
TtsPayload(class, model, text, voice_params) ==
    [text |-> text,
     voice |-> Get(voice_params, "voice", DefaultVoice(class, model)),
     speed |-> Get(voice_params, "speed", Str(Default.speed)),
     model |-> IF class = "OpenAIVoiceProvider" THEN model ELSE Absent]

NoPayload == [text |-> <<>>, voice |-> Absent, speed |-> Absent, model |-> Absent]

\* What the backend does with the synthesis request: a response with a
\* status and a body, or a transport failure raised by the HTTP client
TtsBackends ==
    { [kind |-> "response", status |-> 200, body |-> "audio"],
      [kind |-> "response", status |-> 401, body |-> "denied"],
      [kind |-> "response", status |-> 500, body |-> "boom"],
      [kind |-> "exception", status |-> 0, body |-> "ClientConnectorError"] }

NoExc == [type |-> "none", prefix |-> "", status |-> 0, message |-> ""]

\* The name a provider puts in front of its error text
TtsErrorPrefix(class) ==
    CASE class = "OpenAIVoiceProvider" -> "OpenAI TTS error"
      [] class = "ChatterAIVoiceProvider" -> "ChatterAI TTS error"
      [] class = "XTTVoiceProvider" -> "XTT TTS error"

TtsPending == [ret |-> "pending", audio |-> "none", exc |-> NoExc]

\* Variant of TtsResult that returns the body of any response as audio
TtsResult_AnyBodyIsAudio(class, backend) ==
    IF backend.kind = "response"
    THEN [ret |-> "audio", audio |-> backend.body, exc |-> NoExc]
    ELSE [ret |-> "raise", audio |-> "none",
          exc |-> [type |-> backend.body, prefix |-> "", status |-> 0,
                   message |-> ""]]

\* How text_to_speech ends: 200 returns the body; another status raises
\* Exception(f"<name> TTS error {status}: {text}") inside the try, and the
\* except clause re-raises whatever it caught, the client's own exception
\* included.
TtsResult(class, backend) ==
    IF backend.kind = "response"
    THEN IF backend.status = 200
         THEN [ret |-> "audio", audio |-> backend.body, exc |-> NoExc]
         ELSE [ret |-> "raise", audio |-> "none",
               exc |-> [type |-> "Exception", prefix |-> TtsErrorPrefix(class),
                        status |-> backend.status, message |-> backend.body]]
    ELSE [ret |-> "raise", audio |-> "none",
          exc |-> [type |-> backend.body, prefix |-> "", status |-> 0,
                   message |-> ""]]

\* _generate_voice_response after text_to_speech: the audio goes to
\* _play_audio_with_animation; an exception is caught and printed
VoiceStep(result) == IF result.ret = "audio" THEN "play" ELSE "caught"

\* ------------------------------------------------------------------------
\* State
\* ------------------------------------------------------------------------
VARIABLES
    facConfig,            \* the config dict handed to a direct create_* call
    facProbe,             \* what the backend answers to that call's probe
    facCap,               \* which create_* was called: "none", "llm", "voice"
    facResult,            \* the outcome of that call
    phase,                \* run(): "constructed", "ready", "failed", "stopped"
    llm_provider,         \* BillyBassAssistant.llm_provider (class or "none")
    voice_provider,       \* BillyBassAssistant.voice_provider (class or "none")
    session_active,       \* BillyBassAssistant.session_active
    provider_session,     \* the session on llm_provider as the calls made
                          \* it: "none", "open" (start_session), "ended"
    shutdown_requested,   \* BillyBassAssistant.shutdown_requested
    conversation_history, \* KoboldProvider.conversation_history
    kobold_prompt,        \* payload["prompt"] of the last generate request
    pc,                   \* per caller: where its process_user_input is suspended
    complete_text,        \* per caller: _handle_streaming_response's accumulator
    gen,                  \* per caller: its response generator: "none",
                          \* "awaiting" (request sent), "yielding"
    pending,              \* per caller: chunks produced and not yet iterated
    trace,                \* per caller: the provider calls of its current turn
    flag,                 \* per caller: how its current turn has gone so far
    turn,                 \* number of turns started
    outcomes,             \* how each finished turn ended, in order
    env,                  \* os.environ: per variable, unset or its value
    stage,                \* of a deployment: "idle", "populating",
                          \* "resolved" (configs loaded), "started"
    resolved,             \* CONFIG (main.py) and BILLY_CONFIG (core/config.py)
    started,              \* what initialize() did with CONFIG
    tts,                  \* one synthesis call on a voice provider
    kob                   \* a KoboldProvider driven through its interface:
                          \* max_context, the last call and what it met

vars ==
    <<facConfig, facProbe, facCap, facResult, phase, llm_provider,
      voice_provider, session_active, provider_session, shutdown_requested,
      conversation_history, kobold_prompt, pc, complete_text, gen, pending,
      trace, flag, turn, outcomes, env, stage, resolved, started, tts, kob>>

resVars == <<env, stage, resolved, started, kob>>
facVars == <<facConfig, facProbe, facCap, facResult>>
orchVars ==
    <<phase, llm_provider, voice_provider, session_active, provider_session,
      shutdown_requested,
      conversation_history, kobold_prompt, pc, complete_text, gen, pending,
      trace, flag, turn, outcomes>>

\* The callers of process_user_input: the run() loop and handle_button_press
Tasks == {"run", "button"}

\* One provider call of a turn
Ev(op, text, chunk) == [op |-> op, text |-> text, chunk |-> chunk]

\* ------------------------------------------------------------------------
\* Inputs
\* ------------------------------------------------------------------------
K_key == <<"k">>
U_url == <<"u">>
M_model == <<"m">>

NameInputs ==
    { N_openai, <<"O","p","e","n","A","I">>,
      N_ollama, <<"O","L","L","A","M","A">>,
      N_kobold, <<"K","o","b","o","l","d">>,
      N_chatterai, <<"C","h","a","t","t","e","r","A","I">>,
      N_xtt, <<"X","T","T">>,
      <<"f","o","o">>, <<>> }

\* Config dicts a caller of the factory can pass
FactoryConfigs ==
    [provider : {Absent, None} \cup {Str(n) : n \in NameInputs},
     api_key : {Absent, None, Str(<<>>), Str(K_key)},
     api_url : {Absent, None, Str(U_url)},
     model : {Absent, None, Str(M_model)}]

\* The dicts BillyBassAssistant.initialize builds from CONFIG: every key is
\* present; load_config leaves api_url None only for openai.
MainLLMConfigs ==
    {c \in [provider : {Str(N_openai), Str(N_ollama), Str(N_kobold)},
            api_key : {None, Str(K_key)},
            api_url : {None, Str(U_url)},
            model : {Str(M_model)}] :
        c.api_url = None => c.provider = Str(N_openai)}

MainVoiceConfigs ==
    {c \in [provider : {Str(N_openai), Str(N_chatterai), Str(N_xtt)},
            api_key : {None, Str(K_key)},
            api_url : {None, Str(U_url)},
            model : {Str(M_model)}] :
        c.api_url = None => c.provider = Str(N_openai)}

\* What the user types: non-blank and not a quit word
Messages == { <<"x">>, <<"y">> }

\* ------------------------------------------------------------------------
\* Initial states
\* ------------------------------------------------------------------------
\* BillyBassAssistant.__init__ and KoboldProvider.__init__
OrchInit ==
    /\ phase = "constructed"
    /\ llm_provider = "none"
    /\ voice_provider = "none"
    /\ session_active = FALSE
    /\ provider_session = "none"
    /\ shutdown_requested = FALSE
    /\ conversation_history = <<>>
    /\ kobold_prompt = <<>>
    /\ pc = [t \in Tasks |-> "idle"]
    /\ complete_text = [t \in Tasks |-> <<>>]
    /\ gen = [t \in Tasks |-> "none"]
    /\ pending = [t \in Tasks |-> <<>>]
    /\ trace = [t \in Tasks |-> <<>>]
    /\ flag = [t \in Tasks |-> "ok"]
    /\ turn = 0
    /\ outcomes = <<>>

FacIdle ==
    /\ facConfig = [provider |-> Absent, api_key |-> Absent,
                    api_url |-> Absent, model |-> Absent]
    /\ facProbe = "ok200"
    /\ facCap = "none"
    /\ facResult = Pending

\* No deployment under observation: the environment is left as it is
NoConfigs ==
    [main |-> [llm |-> LLMConfig(None, None, None, None),
               voice |-> VoiceConfig(None, None, None, None, None)],
     core |-> [llm |-> LLMConfig(None, None, None, None),
               voice |-> VoiceConfig(None, None, None, None, None)],
     detected |-> [main_llm |-> <<>>, main_voice |-> <<>>,
                   core_llm |-> <<>>, core_voice |-> <<>>]]

NotStarted ==
    [llm |-> "pending", voice |-> "pending", voice_class |-> "none",
     voice_api_url |-> None, voice_probe |-> "none", ok |-> FALSE]

\* KoboldProvider.__init__: no call made yet, max_context 2048
KobIdle ==
    [max_context |-> DefaultMaxContext, op |-> "none",
     backend |-> [kind |-> "none", text |-> <<>>], chunks |-> <<>>,
     calls |-> 0]

ResIdle ==
    /\ env = [x \in EnvVars |-> Absent]
    /\ stage = "idle"
    /\ resolved = NoConfigs
    /\ started = NotStarted
    /\ kob = KobIdle

\* No synthesis call under observation
TtsIdle ==
    [stage |-> "idle", caller |-> "none", class |-> "none", model |-> None,
     text |-> <<>>, voice_params |-> [voice |-> Absent, speed |-> Absent],
     backend |-> [kind |-> "none", status |-> 0, body |-> ""],
     payload |-> NoPayload, result |-> TtsPending, played |-> FALSE]

Init == OrchInit /\ FacIdle /\ ResIdle /\ tts = TtsIdle

\* A direct caller of the factory with some config, against some backend
FactoryInit ==
    /\ OrchInit
    /\ facConfig \in FactoryConfigs
    /\ facProbe \in ProbeOutcomes
    /\ facCap = "none"
    /\ facResult = Pending
    /\ ResIdle
    /\ tts = TtsIdle

\* ------------------------------------------------------------------------
\* Factory calls
\* ------------------------------------------------------------------------
CreateLLM ==
    /\ facCap = "none"
    /\ facCap' = "llm"
    /\ facResult' = create_llm_provider(facConfig, facProbe)
    /\ UNCHANGED <<facConfig, facProbe>>
    /\ UNCHANGED orchVars
    /\ UNCHANGED resVars
    /\ UNCHANGED tts

CreateVoice ==
    /\ facCap = "none"
    /\ facCap' = "voice"
    /\ facResult' = create_voice_provider(facConfig, facProbe)
    /\ UNCHANGED <<facConfig, facProbe>>
    /\ UNCHANGED orchVars
    /\ UNCHANGED resVars
    /\ UNCHANGED tts

FactoryNext == CreateLLM \/ CreateVoice

FactorySpec == FactoryInit /\ [][FactoryNext]_vars

\* A caller checks its config before creating anything
ValidateLLM ==
    /\ facCap = "none"
    /\ facCap' = "validate_llm"
    /\ facResult' = validate_llm_config(facConfig)
    /\ UNCHANGED <<facConfig, facProbe>>
    /\ UNCHANGED orchVars
    /\ UNCHANGED resVars
    /\ UNCHANGED tts

ValidateVoice ==
    /\ facCap = "none"
    /\ facCap' = "validate_voice"
    /\ facResult' = validate_voice_config(facConfig)
    /\ UNCHANGED <<facConfig, facProbe>>
    /\ UNCHANGED orchVars
    /\ UNCHANGED resVars
    /\ UNCHANGED tts

ValidateNext == ValidateLLM \/ ValidateVoice

ValidateSpec == FactoryInit /\ [][ValidateNext]_vars

\* ------------------------------------------------------------------------
\* Orchestrator: BillyBassAssistant
\* ------------------------------------------------------------------------
\* Variant of NeedsStart that opens a session for every turn
NeedsStart_Always(active) == TRUE

\* process_user_input: "if not self.session_active" starts a conversation
NeedsStart(active) == ~active

\* Variant of HandlerFor that iterates the stream of a realtime provider
HandlerFor_RealtimeStreams(model_type) ==
    IF model_type = "REQUEST_RESPONSE" THEN "complete" ELSE "streaming"

\* The handler process_user_input runs for a model type
HandlerFor(model_type) ==
    IF model_type = "REALTIME" THEN "realtime"
    ELSE IF model_type = "STREAMING" THEN "streaming"
    ELSE "complete"

\* Variant of StreamingStep that reports an error chunk and goes on
StreamingStep_ErrorGoesOn(chunk) ==
    IF chunk.type = "text_delta" THEN "accumulate"
    ELSE IF chunk.type = "error" THEN "continue"
    ELSE IF chunk.done THEN "break"
    ELSE "continue"

\* _handle_streaming_response on one chunk
StreamingStep(chunk) ==
    IF chunk.type = "text_delta" THEN "accumulate"
    ELSE IF chunk.type = "error" THEN "abort"
    ELSE IF chunk.done THEN "break"
    ELSE "continue"

\* Variant of CompleteStep that speaks every text_complete chunk
CompleteStep_NoBlankCheck(response) ==
    IF response.type = "text_complete" THEN "speak"
    ELSE IF response.type = "error" THEN "report"
    ELSE "skip"

\* _handle_complete_response on one chunk
CompleteStep(response) ==
    IF response.type = "text_complete"
    THEN IF Strip(response.text) # <<>> THEN "speak" ELSE "skip"
    ELSE IF response.type = "error" THEN "report"
    ELSE "skip"

\* Variant of StreamingSpeech that passes the accumulator as it is
StreamingSpeech_NoStrip(text) == text

\* The argument _handle_streaming_response passes to _generate_voice_response
StreamingSpeech(text) == Strip(text)

\* How a turn ends when an exception is raised at a site inside it: each site
\* lies in a try whose "except Exception" catches it and ends the turn;
\* uncaught, it would leave process_user_input ("propagated").
OnRaise(site) ==
    CASE site = "stream" -> "exception"
      [] site = "text_to_speech" -> "tts_failed"

\* The chunks a caller has consumed in its current turn
ChunksOf(tr) == SelectSeq(tr, LAMBDA e : e.op = "chunk")

\* The provider calls with which process_user_input opens a turn
TurnCalls(start, message, handler) ==
    (IF start THEN <<Ev("start_session", <<>>, NoChunk)>> ELSE <<>>)
    \o <<Ev("send_message", message, NoChunk), Ev(handler, <<>>, NoChunk)>>

\* One suspension point of a turn reached: the turn's bookkeeping
Settle(t, tr, text, nextpc, fl, g, pend) ==
    /\ trace' = [trace EXCEPT ![t] = tr]
    /\ complete_text' = [complete_text EXCEPT ![t] = text]
    /\ flag' = [flag EXCEPT ![t] = fl]
    /\ pc' = [pc EXCEPT ![t] = nextpc]
    /\ gen' = [gen EXCEPT ![t] = IF nextpc = "idle" THEN "none" ELSE g]
    /\ pending' = [pending EXCEPT ![t] = IF nextpc = "idle" THEN <<>> ELSE pend]
    /\ outcomes' = IF nextpc = "idle" THEN Append(outcomes, fl) ELSE outcomes

\* Variant of Assistant_initialize that goes on without a voice provider
Assistant_initialize_VoiceOptional(l, v) == l.outcome = "returned"

\* BillyBassAssistant.initialize: True when both create_* calls return; any
\* exception of either is caught and makes it return False.
Assistant_initialize(l, v) == l.outcome = "returned" /\ v.outcome = "returned"

\* run() up to its loop: initialize(), and a return when it is False
Initialize ==
    /\ phase = "constructed"
    /\ \E lc \in MainLLMConfigs, vc \in MainVoiceConfigs,
          lp \in ProbeOutcomes, vp \in ProbeOutcomes :
          LET l == create_llm_provider(lc, lp)
              v == create_voice_provider(vc, vp)
          IN  /\ llm_provider' = l.instance
              /\ voice_provider' =
                    IF l.outcome = "returned" THEN v.instance ELSE "none"
              /\ phase' = IF Assistant_initialize(l, v)
                          THEN "ready" ELSE "failed"
    /\ UNCHANGED <<session_active, shutdown_requested, conversation_history,
                   kobold_prompt, pc, complete_text, gen, pending, trace,
                   flag, turn, outcomes>>
    /\ UNCHANGED provider_session
    /\ UNCHANGED facVars
    /\ UNCHANGED resVars
    /\ UNCHANGED tts

\* Variant of complete_text_at_entry that goes on from what the caller's
\* previous turn left
complete_text_at_entry_Kept(left_over) == left_over

\* complete_text = "" on entry of _handle_streaming_response: the accumulator
\* is a local of the call, whatever an earlier call left in its own
complete_text_at_entry(left_over) == <<>>

\* process_user_input up to its first suspension: start_conversation when no
\* session is active, send_message, get_model_type, the handler's entry and,
\* for Kobold, the request built by get_response_stream.
process_user_input(t, user_message) ==
    /\ pc[t] = "idle"
    /\ turn < MaxTurns
    /\ llm_provider # "none"
    /\ LET start == NeedsStart(session_active)
           kobold == llm_provider = "KoboldProvider"
           hist0 == IF start /\ kobold THEN <<>> ELSE conversation_history
           hist1 == IF kobold THEN Kobold_send_message(hist0, user_message)
                    ELSE hist0
           handler == HandlerFor(get_model_type(llm_provider))
       IN  /\ session_active' = TRUE
           /\ provider_session' = IF start THEN "open" ELSE provider_session
           /\ conversation_history' = hist1
           /\ kobold_prompt' =
                 IF handler = "complete"
                 THEN KoboldPrompt(hist1, DefaultMaxContext)
                 ELSE kobold_prompt
           /\ turn' = turn + 1
           /\ Settle(t, TurnCalls(start, user_message, handler),
                     complete_text_at_entry(complete_text[t]),
                     IF handler = "realtime" THEN "idle" ELSE handler,
                     "ok", "awaiting", <<>>)
    /\ UNCHANGED <<phase, llm_provider, voice_provider, shutdown_requested>>
    /\ UNCHANGED facVars
    /\ UNCHANGED resVars
    /\ UNCHANGED tts

\* A caller enters process_user_input while run() is in its loop: the loop
\* itself unless shutdown was requested, or handle_button_press
BeginTurn(t, user_message) ==
    /\ phase = "ready"
    /\ t = "run" => ~shutdown_requested
    /\ process_user_input(t, user_message)

\* handle_button_press() after shutdown(): nothing on its way to
\* process_user_input reads shutdown_requested
PressAfterShutdown(user_message) ==
    /\ phase = "stopped"
    /\ process_user_input("button", user_message)

\* _generate_voice_response(text) up to the text_to_speech request; without a
\* voice provider it returns and the handler goes on at `back`.
Speak(t, tr, text, arg, ttspc, back, g, pend) ==
    IF voice_provider = "none"
    THEN Settle(t, tr, text, back, flag[t], g, pend)
    ELSE Settle(t, Append(tr, Ev("text_to_speech", arg, NoChunk)), text,
                ttspc, flag[t], g, pend)

\* _handle_streaming_response after its loop
AfterLoop(t, tr, text) ==
    IF Strip(text) # <<>>
    THEN Speak(t, tr, text, StreamingSpeech(text), "tts_streaming", "idle",
               "none", <<>>)
    ELSE Settle(t, tr, text, "idle", flag[t], "none", <<>>)

\* One iteration of the loop of _handle_streaming_response: the provider
\* yields a chunk, ends the stream or raises.
StreamChunk(t) ==
    /\ pc[t] = "streaming"
    /\ Len(ChunksOf(trace[t])) < MaxChunks
    /\ \E chunk \in OllamaChunks :
          LET tr == Append(trace[t], Ev("chunk", <<>>, chunk))
              step == StreamingStep(chunk)
          IN  CASE step = "accumulate" ->
                     Settle(t, tr, complete_text[t] \o chunk.text,
                            "streaming", flag[t], "yielding", <<>>)
                [] step = "abort" ->
                     Settle(t, tr, complete_text[t], "idle", "error_chunk",
                            "none", <<>>)
                [] step = "break" -> AfterLoop(t, tr, complete_text[t])
                [] step = "continue" ->
                     Settle(t, tr, complete_text[t], "streaming", flag[t],
                            "yielding", <<>>)
    /\ UNCHANGED <<phase, llm_provider, voice_provider, session_active,
                   shutdown_requested, conversation_history, kobold_prompt,
                   turn>>
    /\ UNCHANGED provider_session
    /\ UNCHANGED facVars
    /\ UNCHANGED resVars
    /\ UNCHANGED tts

\* The stream ends without a further chunk
StreamEnd(t) ==
    /\ pc[t] = "streaming"
    /\ AfterLoop(t, trace[t], complete_text[t])
    /\ UNCHANGED <<phase, llm_provider, voice_provider, session_active,
                   shutdown_requested, conversation_history, kobold_prompt,
                   turn>>
    /\ UNCHANGED provider_session
    /\ UNCHANGED facVars
    /\ UNCHANGED resVars
    /\ UNCHANGED tts

\* The provider raises while the handler iterates (Kobold's generator catches
\* its own exceptions): caught by the handler's except
StreamRaise(t) ==
    /\ pc[t] = "streaming"
    /\ Settle(t, trace[t], complete_text[t], "idle", OnRaise("stream"), "none",
              <<>>)
    /\ UNCHANGED <<phase, llm_provider, voice_provider, session_active,
                   shutdown_requested, conversation_history, kobold_prompt,
                   turn>>
    /\ UNCHANGED provider_session
    /\ UNCHANGED facVars
    /\ UNCHANGED resVars
    /\ UNCHANGED tts

\* _handle_complete_response on the chunks `pend` of the open generator
CompleteLoop(t, pend) ==
    IF pend = <<>>
    THEN Settle(t, trace[t], complete_text[t], "idle", flag[t], "none", <<>>)
    ELSE
      LET response == Head(pend)
          tr == Append(trace[t], Ev("chunk", <<>>, response))
          step == CompleteStep(response)
      IN  CASE step = "speak" ->
                 Speak(t, tr, complete_text[t], response.text, "tts_complete",
                       "complete", "yielding", Tail(pend))
            [] step = "report" ->
                 Settle(t, tr, complete_text[t], "complete", "error_chunk",
                        "yielding", Tail(pend))
            [] step = "skip" ->
                 Settle(t, tr, complete_text[t], "complete", flag[t],
                        "yielding", Tail(pend))

\* The Kobold backend answers the generate request; the generator handles the
\* answer and the handler iterates.
KoboldRespond(t) ==
    /\ pc[t] = "complete"
    /\ gen[t] = "awaiting"
    /\ llm_provider = "KoboldProvider"
    /\ \E backend \in KoboldBackend :
          /\ conversation_history' =
                Kobold_history_after(conversation_history, backend)
          /\ CompleteLoop(t, Kobold_get_response_stream(backend))
    /\ UNCHANGED <<phase, llm_provider, voice_provider, session_active,
                   shutdown_requested, kobold_prompt, turn>>
    /\ UNCHANGED provider_session
    /\ UNCHANGED facVars
    /\ UNCHANGED resVars
    /\ UNCHANGED tts

\* The handler asks the open generator for its next chunk
CompleteNext(t) ==
    /\ pc[t] = "complete"
    /\ gen[t] = "yielding"
    /\ CompleteLoop(t, pending[t])
    /\ UNCHANGED <<phase, llm_provider, voice_provider, session_active,
                   shutdown_requested, conversation_history, kobold_prompt,
                   turn>>
    /\ UNCHANGED provider_session
    /\ UNCHANGED facVars
    /\ UNCHANGED resVars
    /\ UNCHANGED tts

\* text_to_speech answers: audio, which is played, or an exception, which
\* _generate_voice_response catches; the handler goes on.
TtsReturn(t) ==
    /\ pc[t] \in {"tts_streaming", "tts_complete"}
    /\ voice_provider # "none"
    /\ \E backend \in TtsBackends :
          LET ok == VoiceStep(TtsResult(voice_provider, backend)) = "play"
          IN  Settle(t,
                     IF ok THEN Append(trace[t], Ev("play", <<>>, NoChunk))
                     ELSE trace[t],
                     complete_text[t],
                     IF pc[t] = "tts_streaming" THEN "idle" ELSE "complete",
                     IF ok THEN flag[t] ELSE OnRaise("text_to_speech"),
                     gen[t], pending[t])
    /\ UNCHANGED <<phase, llm_provider, voice_provider, session_active,
                   shutdown_requested, conversation_history, kobold_prompt,
                   turn>>
    /\ UNCHANGED provider_session
    /\ UNCHANGED facVars
    /\ UNCHANGED resVars
    /\ UNCHANGED tts

\* setup_signal_handlers: SIGINT/SIGTERM
Signal ==
    /\ phase = "ready"
    /\ ~shutdown_requested
    /\ shutdown_requested' = TRUE
    /\ UNCHANGED <<phase, llm_provider, voice_provider, session_active,
                   conversation_history, kobold_prompt, pc, complete_text,
                   gen, pending, trace, flag, turn, outcomes>>
    /\ UNCHANGED provider_session
    /\ UNCHANGED facVars
    /\ UNCHANGED resVars
    /\ UNCHANGED tts

\* run() leaves its loop (quit word, EOF, shutdown requested) and shutdown()
\* runs: end_session on the provider, which for Kobold changes nothing;
\* session_active is not written.
Shutdown ==
    /\ phase = "ready"
    /\ pc["run"] = "idle"
    /\ phase' = "stopped"
    /\ shutdown_requested' = TRUE
    /\ provider_session' = "ended"
    /\ UNCHANGED <<llm_provider, voice_provider, session_active,
                   conversation_history, kobold_prompt, pc, complete_text,
                   gen, pending, trace, flag, turn, outcomes>>
    /\ UNCHANGED facVars
    /\ UNCHANGED resVars
    /\ UNCHANGED tts

\* The program as main() runs it: one flow of control, the run() loop
Next ==
    \/ Initialize
    \/ \E m \in Messages : BeginTurn("run", m)
    \/ StreamChunk("run")
    \/ StreamEnd("run")
    \/ StreamRaise("run")
    \/ KoboldRespond("run")
    \/ CompleteNext("run")
    \/ TtsReturn("run")
    \/ Signal
    \/ Shutdown

Spec == Init /\ [][Next]_vars

\* The orchestrator with both of its entry points live on one event loop: the
\* run() loop and handle_button_press each call process_user_input, and a
\* caller runs while the other is suspended on the network.
TasksNext ==
    \/ Initialize
    \/ \E t \in Tasks, m \in Messages : BeginTurn(t, m)
    \/ \E t \in Tasks : StreamChunk(t)
    \/ \E t \in Tasks : StreamEnd(t)
    \/ \E t \in Tasks : StreamRaise(t)
    \/ \E t \in Tasks : KoboldRespond(t)
    \/ \E t \in Tasks : CompleteNext(t)
    \/ \E t \in Tasks : TtsReturn(t)
    \/ Signal
    \/ Shutdown

TasksSpec == Init /\ [][TasksNext]_vars

\* The assistant's whole life as an object: the run() loop, shutdown(), and the
\* button callback arriving once shutdown() has run
LifecycleNext ==
    \/ Next
    \/ \E m \in Messages : PressAfterShutdown(m)
    \/ StreamChunk("button")
    \/ StreamEnd("button")
    \/ StreamRaise("button")
    \/ KoboldRespond("button")
    \/ CompleteNext("button")
    \/ TtsReturn("button")

LifecycleSpec == Init /\ [][LifecycleNext]_vars

\* ------------------------------------------------------------------------
\* A deployment: the environment is populated, the configs are loaded, the
\* assistant starts
\* ------------------------------------------------------------------------
MaxEnvVars == 3

\* initialize() is followed for deployments of at most this many variables
MaxStartupVars == 2

\* The values a variable is given; where nothing about the value matters it
\* is one token named after the variable
EnvValues(x) ==
    CASE x = "LLM_PROVIDER" -> {<<>>, N_openai, N_ollama, <<"K", "o", "b", "o", "l", "d">>,
             <<"f", "o", "o">>}
      [] x = "VOICE_PROVIDER" -> {<<>>, N_chatterai, <<"X", "T", "T">>, <<"f", "o", "o">>}
      [] x = "OLLAMA_HOST" -> {<<"h">>, <<"s", ":", "/", "/", "h">>}
      [] x = "LLM_API_URL" -> {<<>>, <<x>>}
      [] x = "LLM_MODEL" -> {<<>>, <<x>>}
      [] x = "VOICE_API_URL" ->
            {<<>>, <<x>>, <<"C", "h", "a", "t", "t", "e", "r">>, N_xtt}
      [] OTHER -> {<<x>>}

EnvSet == {x \in EnvVars : env[x].tag # "absent"}

\* The deployment under observation begins with an empty environment
ResolverInit ==
    /\ OrchInit
    /\ FacIdle
    /\ env = [x \in EnvVars |-> Absent]
    /\ stage = "populating"
    /\ resolved = NoConfigs
    /\ started = NotStarted
    /\ tts = TtsIdle
    /\ kob = KobIdle

\* One more variable is exported (or read from .env by load_dotenv)
Setenv(x, value) ==
    /\ stage = "populating"
    /\ env[x].tag = "absent"
    /\ Cardinality(EnvSet) < MaxEnvVars
    /\ env' = [env EXCEPT ![x] = Str(value)]
    /\ UNCHANGED <<stage, resolved, started, tts, kob>>
    /\ UNCHANGED facVars
    /\ UNCHANGED orchVars

\* The modules are imported: CONFIG = load_config() in main.py and
\* BILLY_CONFIG = load_billy_config() in core/config.py
Resolve ==
    /\ stage = "populating"
    /\ stage' = "resolved"
    /\ resolved' =
          [main |-> load_config(env),
           core |-> load_billy_config(env),
           detected |-> [main_llm |-> main_detect_llm_provider(env),
                         main_voice |-> main_detect_voice_provider(env),
                         core_llm |-> detect_llm_provider(env),
                         core_voice |-> detect_voice_provider(env)]]
    /\ UNCHANGED <<env, started, tts, kob>>
    /\ UNCHANGED facVars
    /\ UNCHANGED orchVars

\* BillyBassAssistant().initialize() on CONFIG, against backends that answer
\* the probes with lp and vp
Startup ==
    /\ stage = "resolved"
    /\ Cardinality(EnvSet) <= MaxStartupVars
    /\ stage' = "started"
    /\ \E lp \in ProbeOutcomes :
          LET l == create_llm_provider(resolved.main.llm, lp)
              reached == l.outcome = "returned"
          IN  \E vp \in IF reached THEN ProbeOutcomes ELSE {"none"} :
                LET v == IF reached
                         THEN create_voice_provider(resolved.main.voice, vp)
                         ELSE Pending
                IN  started' =
                      [llm |-> l.outcome,
                       voice |-> v.outcome,
                       voice_class |-> v.instantiated,
                       voice_api_url |->
                          IF v.instantiated # "none"
                          THEN VoiceProvider_api_url(resolved.main.voice)
                          ELSE None,
                       voice_probe |-> vp,
                       ok |-> Assistant_initialize(l, v)]
    /\ UNCHANGED <<env, resolved, tts, kob>>
    /\ UNCHANGED facVars
    /\ UNCHANGED orchVars

ResolverNext ==
    \/ \E x \in EnvVars : \E value \in EnvValues(x) : Setenv(x, value)
    \/ Resolve
    \/ Startup

ResolverSpec == ResolverInit /\ [][ResolverNext]_vars

\* ------------------------------------------------------------------------
\* One synthesis call, made on the provider directly or by the orchestrator
\* ------------------------------------------------------------------------
\* self.model of an initialized provider: the class default or another name
TtsModels(class) ==
    CASE class = "OpenAIVoiceProvider" -> {Str(Default.openai_voice_model)}
      [] class = "ChatterAIVoiceProvider" ->
           {Str(Default.chatterai_voice), Str(<<"calm">>)}
      [] class = "XTTVoiceProvider" -> {Str(Default.xtt_voice), Str(<<"male">>)}

\* voice_params of a direct caller (keys may be missing) and of
\* _generate_voice_response (both keys, from self.config.voice); the voice is
\* a supported one or one that is not
TtsParams(class, caller) ==
    [voice : {Str(get_supported_voices(class)[2]), Str(<<"zzz">>)}
             \cup (IF caller = "direct" THEN {Absent} ELSE {}),
     speed : {Str(Default.speed), Str(<<"1.5">>)}
             \cup (IF caller = "direct" THEN {Absent} ELSE {})]

TtsRequests ==
    UNION { UNION { { [stage |-> "requested", caller |-> caller,
                       class |-> class, model |-> model, text |-> text,
                       voice_params |-> vp, backend |-> backend,
                       payload |-> NoPayload, result |-> TtsPending,
                       played |-> FALSE] :
                        model \in TtsModels(class), text \in {<<"x">>},
                        vp \in TtsParams(class, caller),
                        backend \in TtsBackends } :
                    class \in VoiceClasses } :
            caller \in {"direct", "orchestrator"} }

VoiceInit ==
    /\ OrchInit
    /\ FacIdle
    /\ ResIdle
    /\ tts \in TtsRequests

\* provider.text_to_speech(text, voice_params), called on the contract
TextToSpeech ==
    /\ tts.stage = "requested"
    /\ tts.caller = "direct"
    /\ tts' = [tts EXCEPT
                 !.stage = "done",
                 !.payload = TtsPayload(tts.class, tts.model, tts.text,
                                        tts.voice_params),
                 !.result = TtsResult(tts.class, tts.backend)]
    /\ UNCHANGED facVars
    /\ UNCHANGED orchVars
    /\ UNCHANGED resVars

\* _generate_voice_response(text) with a voice provider
GenerateVoice ==
    /\ tts.stage = "requested"
    /\ tts.caller = "orchestrator"
    /\ LET result == TtsResult(tts.class, tts.backend)
       IN  tts' = [tts EXCEPT
                     !.stage = "done",
                     !.payload = TtsPayload(tts.class, tts.model, tts.text,
                                            tts.voice_params),
                     !.result = result,
                     !.played = (VoiceStep(result) = "play")]
    /\ UNCHANGED facVars
    /\ UNCHANGED orchVars
    /\ UNCHANGED resVars

VoiceNext == TextToSpeech \/ GenerateVoice

VoiceSpec == VoiceInit /\ [][VoiceNext]_vars

\* ------------------------------------------------------------------------
\* A KoboldProvider driven through the provider interface
\* ------------------------------------------------------------------------
MaxCalls == 4

\* A provider after initialize(config) against a backend that answers;
\* config['max_context'] is a budget that the prompts of a few short turns
\* exceed
KoboldInit ==
    /\ OrchInit
    /\ FacIdle
    /\ env = [x \in EnvVars |-> Absent]
    /\ stage = "idle"
    /\ resolved = NoConfigs
    /\ started = NotStarted
    /\ tts = TtsIdle
    /\ \E c \in {10, 20} :
          kob = [KobIdle EXCEPT !.max_context = c, !.op = "initialize"]

\* One call on the provider: what it met, what it yielded, and what none of
\* the provider's methods touches
KoboldCall(op, backend, chunks) ==
    /\ kob.calls < MaxCalls
    /\ kob' = [kob EXCEPT !.op = op, !.backend = backend, !.chunks = chunks,
                          !.calls = @ + 1]
    /\ UNCHANGED <<phase, llm_provider, voice_provider, session_active,
                   shutdown_requested, pc, complete_text, gen, pending, trace,
                   flag, turn, outcomes>>
    /\ UNCHANGED provider_session
    /\ UNCHANGED facVars
    /\ UNCHANGED <<env, stage, resolved, started, tts>>

\* KoboldProvider.start_session
Kobold_start_session ==
    /\ conversation_history' = <<>>
    /\ UNCHANGED kobold_prompt
    /\ KoboldCall("start_session", KobIdle.backend, <<>>)

\* KoboldProvider.send_message(message)
SendMessage(message) ==
    /\ conversation_history' =
          Kobold_send_message(conversation_history, message)
    /\ UNCHANGED kobold_prompt
    /\ KoboldCall("send_message", KobIdle.backend, <<>>)

\* KoboldProvider.get_response_stream(), iterated to its end
GetResponseStream(backend) ==
    /\ kobold_prompt' = KoboldPrompt(conversation_history, kob.max_context)
    /\ conversation_history' =
          Kobold_history_after(conversation_history, backend)
    /\ KoboldCall("get_response_stream", backend,
                  Kobold_get_response_stream(backend))

\* KoboldProvider.end_session: a print and pass
Kobold_end_session ==
    /\ UNCHANGED <<conversation_history, kobold_prompt>>
    /\ KoboldCall("end_session", KobIdle.backend, <<>>)

\* The provider's callers; what is said to it is a one-line utterance or one
\* with a line break
KoboldNext ==
    \/ Kobold_start_session
    \/ \E message \in {<<"x">>, <<"y", "\n", "z">>} : SendMessage(message)
    \/ \E backend \in KoboldBackend : GetResponseStream(backend)
    \/ Kobold_end_session

KoboldSpec == KoboldInit /\ [][KoboldNext]_vars

\* ------------------------------------------------------------------------
\* Properties of the factory
\* ------------------------------------------------------------------------
\* The name a create_* call was asked for: config.get('provider', 'openai')
Requested == Get(facConfig, "provider", Str(N_openai))

\* The names registered per capability, as the documentation lists them
RegisteredNames(cap) ==
    IF cap = "llm" THEN {N_openai, N_ollama, N_kobold}
    ELSE {N_openai, N_chatterai, N_xtt}

\* The class the documentation registers under a name, per capability
RegisteredClass(cap, name) ==
    IF cap = "llm"
    THEN CASE name = N_openai -> "OpenAIProvider"
           [] name = N_ollama -> "OllamaProvider"
           [] name = N_kobold -> "KoboldProvider"
    ELSE CASE name = N_openai -> "OpenAIVoiceProvider"
           [] name = N_chatterai -> "ChatterAIVoiceProvider"
           [] name = N_xtt -> "XTTVoiceProvider"

\* C1: a create_* call whose lower-cased provider name is not registered for
\* that capability fails with the unknown-provider error (ValueError), which
\* carries the requested name (as normalised) and lists exactly the names
\* registered for that capability; nothing is instantiated or initialised,
\* and a name of the other capability's registry is unknown as well.
C1_UnknownProviderError ==
    (/\ facCap # "none"
     /\ Requested.tag = "str"
     /\ Lower(Requested.v) \notin RegisteredNames(facCap))
    => /\ facResult.outcome = "raised"
       /\ facResult.instance = "none"
       /\ facResult.error.kind = "ValueError"
       /\ facResult.error.name = Lower(Requested.v)
       /\ Len(facResult.error.available) = 3
       /\ Range(facResult.error.available) = RegisteredNames(facCap)
       /\ facResult.instantiated = "none"
       /\ ~facResult.init_called

\* C1 witness: "OLLAMA", a language-model name, asked of the voice factory
C1_Witness ==
    /\ facCap = "voice"
    /\ Requested = Str(<<"O","L","L","A","M","A">>)
    /\ facResult.error.kind = "ValueError"
    /\ facResult.error.name = N_ollama

\* C2: create_* returns an instance only if initialize returned success, and
\* whenever initialize returned failure or raised, create fails with the
\* initialisation error (ConnectionError), the same kind in both cases, and
\* returns no instance.
C2_InitFailureIsInitializationError ==
    facCap # "none"
    => /\ (facResult.outcome = "returned" => facResult.init_ret = "True")
       /\ (facResult.init_ret \in {"False", "raise"}
           => /\ facResult.outcome = "raised"
              /\ facResult.instance = "none"
              /\ facResult.error.kind = "ConnectionError")

\* C3: for every registered name in any letter case, create_* with a config
\* on which that provider's initialize succeeds returns an initialised
\* instance of the class registered under the lower-cased name.
C3_RegisteredNameAnyCase ==
    (/\ facCap # "none"
     /\ Requested.tag = "str"
     /\ Lower(Requested.v) \in RegisteredNames(facCap)
     /\ initialize(RegisteredClass(facCap, Lower(Requested.v)),
                   facConfig, facProbe).ret = "True")
    => /\ facResult.outcome = "returned"
       /\ facResult.instance = RegisteredClass(facCap, Lower(Requested.v))
       /\ facResult.init_called
       /\ facResult.init_ret = "True"

\* C3 witness: "Kobold" yields an initialised KoboldProvider
C3_Witness ==
    /\ facCap = "llm"
    /\ Requested = Str(<<"K","o","b","o","l","d">>)
    /\ facResult.outcome = "returned"
    /\ facResult.instance = "KoboldProvider"

\* ------------------------------------------------------------------------
\* Properties of a turn
\* ------------------------------------------------------------------------
HandlerOps == {"realtime", "streaming", "complete"}

\* The handler events, the text_to_speech calls and the positions of an
\* operation in the calls of a turn
HandlersOf(tr) == SelectSeq(tr, LAMBDA e : e.op \in HandlerOps)
SpeechOf(tr) == SelectSeq(tr, LAMBDA e : e.op = "text_to_speech")
PositionsOf(tr, ops) == {i \in DOMAIN tr : tr[i].op \in ops}
RunsHandler(tr, h) == \E i \in DOMAIN tr : tr[i].op = h

\* The chunk records of the chunk events of a turn
ChunkSeq(tr) == [i \in DOMAIN ChunksOf(tr) |-> ChunksOf(tr)[i].chunk]

\* A turn whose handler has left its loop
LoopOver(t) == pc[t] \in {"idle", "tts_streaming"}

\* The texts of the text_delta chunks of a sequence, concatenated in order
RECURSIVE DeltaConcat(_)
DeltaConcat(cs) ==
    IF cs = <<>> THEN <<>>
    ELSE (IF Head(cs).type = "text_delta" THEN Head(cs).text ELSE <<>>)
         \o DeltaConcat(Tail(cs))

\* C4: every Kobold get_response_stream() that follows a send_message yields
\* exactly one chunk, whatever the backend does: a text_complete chunk with
\* done = true or an error chunk; never both kinds, never none, never two.
C4_KoboldYieldsExactlyOneChunk ==
    \A t \in Tasks :
        RunsHandler(trace[t], "complete")
        => LET cs == ChunkSeq(trace[t])
           IN  /\ Len(cs) <= 1
               /\ gen[t] = "yielding" => (Len(cs) = 1 /\ pending[t] = <<>>)
               /\ pc[t] = "idle" => Len(cs) = 1
               /\ \A i \in DOMAIN cs :
                      \/ cs[i].type = "text_complete" /\ cs[i].done
                      \/ cs[i].type = "error"

\* C4 witness: a finished Kobold turn whose backend failed: one error chunk
C4_Witness ==
    /\ pc["run"] = "idle"
    /\ RunsHandler(trace["run"], "complete")
    /\ ChunkSeq(trace["run"]) = <<ErrorChunk("connection")>>

\* A chunk sequence without an error chunk whose last chunk, and no earlier
\* one, has done set
EndsWithTerminal(cs) ==
    /\ cs # <<>>
    /\ \A i \in DOMAIN cs : cs[i].type # "error"
    /\ \A i \in DOMAIN cs : cs[i].done <=> i = Len(cs)

\* C5: in _handle_streaming_response, for a chunk sequence without an error
\* chunk that ends with its terminal chunk, text_to_speech is called iff the
\* concatenation of the text_delta texts, trimmed, is non-empty, and then once
\* with exactly that trimmed text.
C5_StreamingSpeechIsTrimmedConcat ==
    \A t \in Tasks :
        (/\ RunsHandler(trace[t], "streaming")
         /\ LoopOver(t)
         /\ flag[t] # "exception"
         /\ EndsWithTerminal(ChunkSeq(trace[t])))
        => LET spoken == Strip(DeltaConcat(ChunkSeq(trace[t])))
           IN  IF spoken # <<>>
               THEN /\ Len(SpeechOf(trace[t])) = 1
                    /\ SpeechOf(trace[t])[1].text = spoken
               ELSE SpeechOf(trace[t]) = <<>>

\* C5 witness: " " then "a" with done: text_to_speech gets "a"
C5_Witness ==
    /\ pc["run"] = "idle"
    /\ ChunkSeq(trace["run"]) =
          <<TextDelta(<<" ">>, FALSE), TextDelta(<<"a">>, TRUE)>>
    /\ Len(SpeechOf(trace["run"])) = 1
    /\ SpeechOf(trace["run"])[1].text = <<"a">>

\* C6: in _handle_streaming_response an error chunk aborts the turn: it is
\* the last chunk consumed, text_to_speech is not called for the turn whatever
\* was accumulated, and the handler has returned.
C6_ErrorChunkAbortsStreamingTurn ==
    \A t \in Tasks :
        RunsHandler(trace[t], "streaming")
        => \A i \in DOMAIN trace[t] :
              (trace[t][i].op = "chunk" /\ trace[t][i].chunk.type = "error")
              => /\ i = Len(trace[t])
                 /\ SpeechOf(trace[t]) = <<>>
                 /\ pc[t] = "idle"

\* C6 witness: an error chunk after "a" was accumulated
C6_Witness ==
    /\ RunsHandler(trace["run"], "streaming")
    /\ complete_text["run"] = <<"a">>
    /\ ChunkSeq(trace["run"]) =
          <<TextDelta(<<"a">>, FALSE), ErrorChunk("backend")>>

\* The chunks of a sequence that _handle_complete_response must speak
Speakable(cs) ==
    SelectSeq(cs, LAMBDA c : c.type = "text_complete" /\ Strip(c.text) # <<>>)

\* C7: in _handle_complete_response a text_complete chunk whose trimmed text
\* is non-empty causes exactly one text_to_speech call, with that chunk's
\* text; a blank text_complete chunk or an error chunk causes none.
C7_CompleteSpeechPerChunk ==
    \A t \in Tasks :
        RunsHandler(trace[t], "complete")
        => LET said == SpeechOf(trace[t])
               want == Speakable(ChunkSeq(trace[t]))
           IN  /\ Len(said) = Len(want)
               /\ \A i \in DOMAIN said : said[i].text = want[i].text

\* C7 witness: a finished Kobold turn that spoke the reply "a"
C7_Witness ==
    /\ pc["run"] = "idle"
    /\ ChunkSeq(trace["run"]) = <<TextComplete(<<"a">>, TRUE)>>
    /\ Len(SpeechOf(trace["run"])) = 1
    /\ SpeechOf(trace["run"])[1].text = <<"a">>

\* The handler the documentation assigns to a provider's interaction style
DocumentedHandler(class) ==
    CASE class = "OpenAIProvider" -> "realtime"
      [] class = "OllamaProvider" -> "streaming"
      [] class = "KoboldProvider" -> "complete"

\* C8: process_user_input runs exactly one consumption protocol per turn, the
\* one of the provider's model type, and only after send_message; chunks and
\* text_to_speech come after it, and for a REALTIME provider there are none.
C8_OneProtocolAfterSend ==
    \A t \in Tasks :
        trace[t] # <<>>
        => LET hs == PositionsOf(trace[t], HandlerOps)
               sends == PositionsOf(trace[t], {"send_message"})
               rest == PositionsOf(trace[t], {"chunk", "text_to_speech", "play"})
           IN  /\ Cardinality(hs) = 1
               /\ Cardinality(sends) = 1
               /\ \A h \in hs :
                     /\ trace[t][h].op = DocumentedHandler(llm_provider)
                     /\ \A i \in sends : i < h
                     /\ \A i \in rest : h < i
               /\ get_model_type(llm_provider) = "REALTIME"
                  => /\ rest = {}
                     /\ complete_text[t] = <<>>
                     /\ pc[t] = "idle"

\* C8 witness: a turn with the realtime provider
C8_Witness ==
    /\ llm_provider = "OpenAIProvider"
    /\ turn = 2
    /\ trace["run"] =
          <<Ev("send_message", <<"x">>, NoChunk), Ev("realtime", <<>>, NoChunk)>>

\* A caller whose message is with the provider and whose turn's terminal
\* chunk (or error chunk) has not been consumed yet
InFlight(t) ==
    /\ pc[t] \in {"streaming", "complete"}
    /\ \A i \in DOMAIN ChunkSeq(trace[t]) :
          /\ ~ChunkSeq(trace[t])[i].done
          /\ ChunkSeq(trace[t])[i].type # "error"

\* C9: turns are serialized under any interleaving of the callers of
\* process_user_input: no send_message reaches the provider while another
\* turn is between its send_message and its terminal chunk.
C9_TurnsSerialized ==
    \A t1, t2 \in Tasks : (InFlight(t1) /\ InFlight(t2)) => t1 = t2

Failures == {"error_chunk", "exception", "tts_failed"}

\* C10: a failed turn (error chunk, provider exception, failed text_to_speech)
\* ends with process_user_input returned and session_active true, and the
\* next turn sends its message to the same provider without start_session.
C10_FailuresAreTurnScoped ==
    /\ outcomes # <<>> => session_active
    /\ \A i \in DOMAIN outcomes : outcomes[i] # "propagated"
    /\ \A t \in Tasks :
          (/\ turn >= 2
           /\ Len(outcomes) >= turn - 1
           /\ outcomes[turn - 1] \in Failures
           /\ trace[t] # <<>>)
          => /\ trace[t][1].op = "send_message"
             /\ \A i \in DOMAIN trace[t] : trace[t][i].op # "start_session"
             /\ llm_provider # "none"

\* C10 witness: the turn after one that ended in an error chunk
C10_Witness ==
    /\ turn = 2
    /\ outcomes = <<"error_chunk">>
    /\ pc["run"] # "idle"
    /\ trace["run"][1].op = "send_message"
    /\ session_active

\* ------------------------------------------------------------------------
\* Startup
\* ------------------------------------------------------------------------
\* A create_* call of initialize() did not return a provider
CreationFailed ==
    phase # "constructed" /\ (llm_provider = "none" \/ voice_provider = "none")

\* C11: when the creation of the language-model provider or of the voice
\* provider fails, initialize() returns False and run() ends: no session is
\* started, no message is sent and nothing is synthesized, ever.
C11_StartupFailureAborts ==
    CreationFailed =>
        /\ phase = "failed"
        /\ turn = 0
        /\ ~session_active
        /\ \A t \in Tasks : trace[t] = <<>> /\ pc[t] = "idle"

\* The language model was created and the voice provider was not
C11_Witness ==
    phase = "failed" /\ llm_provider # "none" /\ voice_provider = "none"

\* ------------------------------------------------------------------------
\* Configuration resolution
\* ------------------------------------------------------------------------
\* The configs have just been loaded from the environment as it stands
\* (initialize() changes neither of them)
Resolved == stage = "resolved"

\* Variable x is set to a non-empty value
IsSet(x) == Truthy(env[x])

\* The backends for which a connection hint is set, per resolver: main.py
\* takes OLLAMA_HOST, OLLAMA_URL / KOBOLD_URL and CHATTERAI_API_KEY /
\* XTT_API_URL as hints; core/config.py takes in addition LLM_API_URL,
\* KOBOLD_HOST, XTT_HOST and a VOICE_API_URL that names the backend.
MainLLMHinted ==
    {b \in {N_ollama, N_kobold} :
        \/ b = N_ollama /\ (IsSet("OLLAMA_HOST") \/ IsSet("OLLAMA_URL"))
        \/ b = N_kobold /\ IsSet("KOBOLD_URL")}

CoreLLMHinted ==
    {b \in {N_ollama, N_kobold} :
        \/ b = N_ollama /\ (IsSet("OLLAMA_HOST") \/ IsSet("OLLAMA_URL")
                             \/ IsSet("LLM_API_URL"))
        \/ b = N_kobold /\ (IsSet("KOBOLD_URL") \/ IsSet("KOBOLD_HOST"))}

MainVoiceHinted ==
    {b \in {N_chatterai, N_xtt} :
        \/ b = N_chatterai /\ IsSet("CHATTERAI_API_KEY")
        \/ b = N_xtt /\ IsSet("XTT_API_URL")}

CoreVoiceHinted ==
    {b \in {N_chatterai, N_xtt} :
        \/ b = N_chatterai /\
              (IsSet("CHATTERAI_API_KEY")
               \/ (IsSet("VOICE_API_URL")
                   /\ Contains(Lower(env["VOICE_API_URL"].v),
                                <<"c", "h", "a", "t", "t", "e", "r">>)))
        \/ b = N_xtt /\
              (IsSet("XTT_API_URL") \/ IsSet("XTT_HOST")
               \/ (IsSet("VOICE_API_URL")
                   /\ Contains(Lower(env["VOICE_API_URL"].v), N_xtt)))}

\* Override, then hint, then "openai"; of two hinted backends always `first`
Precedence(result, override, hinted, first) ==
    /\ IsSet(override) => result = Lower(env[override].v)
    /\ ~IsSet(override) /\ hinted # {} => result \in hinted
    /\ ~IsSet(override) /\ first \in hinted => result = first
    /\ ~IsSet(override) /\ hinted = {} => result = N_openai

\* C12: for both capabilities and in both resolvers, a non-empty override
\* names the provider whatever hints are set; without an override a set hint
\* decides; with neither the provider is "openai". When two backends are
\* hinted the result is one fixed backend (ollama, chatterai), whatever the
\* order in which the variables were set.
C12_SelectionPrecedence ==
    Resolved =>
        /\ Precedence(resolved.detected.main_llm, "LLM_PROVIDER",
                      MainLLMHinted, N_ollama)
        /\ Precedence(resolved.detected.core_llm, "LLM_PROVIDER",
                      CoreLLMHinted, N_ollama)
        /\ Precedence(resolved.detected.main_voice, "VOICE_PROVIDER",
                      MainVoiceHinted, N_chatterai)
        /\ Precedence(resolved.detected.core_voice, "VOICE_PROVIDER",
                      CoreVoiceHinted, N_chatterai)

\* An override set next to the hints of two different backends
C12_Witness ==
    /\ Resolved
    /\ IsSet("LLM_PROVIDER")
    /\ MainLLMHinted = {N_ollama, N_kobold}
    /\ resolved.detected.main_llm = N_kobold

\* C13: a non-empty LLM_PROVIDER (VOICE_PROVIDER), registered or not, is the
\* provider of the configuration the resolver produces, lower-cased; no other
\* provider is put in its place.
C13_OverrideIsTheConfiguredProvider ==
    Resolved =>
        /\ IsSet("LLM_PROVIDER") =>
              /\ resolved.main.llm.provider = Str(Lower(env["LLM_PROVIDER"].v))
              /\ resolved.core.llm.provider = Str(Lower(env["LLM_PROVIDER"].v))
        /\ IsSet("VOICE_PROVIDER") =>
              /\ resolved.main.voice.provider =
                    Str(Lower(env["VOICE_PROVIDER"].v))
              /\ resolved.core.voice.provider =
                    Str(Lower(env["VOICE_PROVIDER"].v))

\* C14: without LLM_PROVIDER, LLM_API_URL and OLLAMA_URL, a set OLLAMA_HOST
\* selects "ollama" and the base URL is the host value when it holds "://",
\* and "http://" followed by the host value otherwise.
C14_OllamaHostBecomesBaseUrl ==
    (/\ Resolved
     /\ ~IsSet("LLM_PROVIDER") /\ ~IsSet("LLM_API_URL") /\ ~IsSet("OLLAMA_URL")
     /\ IsSet("OLLAMA_HOST")) =>
        LET host == env["OLLAMA_HOST"].v
            url == IF Contains(host, <<":", "/", "/">>) THEN host
                   ELSE <<"h", "t", "t", "p", ":", "/", "/">> \o host
        IN  /\ resolved.main.llm.provider = Str(N_ollama)
            /\ resolved.core.llm.provider = Str(N_ollama)
            /\ resolved.main.llm.api_url = Str(url)
            /\ resolved.core.llm.api_url = Str(url)

\* A host with a scheme is resolved, and kept as it is
C14_Witness ==
    /\ Resolved
    /\ ~IsSet("LLM_PROVIDER") /\ ~IsSet("LLM_API_URL") /\ ~IsSet("OLLAMA_URL")
    /\ env["OLLAMA_HOST"] = Str(<<"s", ":", "/", "/", "h">>)
    /\ resolved.core.llm.api_url = Str(<<"s", ":", "/", "/", "h">>)

\* generic override, else provider-specific variable, else default literal
ThreeTier(generic, specific, default) ==
    IF IsSet(generic) THEN env[generic]
    ELSE IF specific # "" /\ IsSet(specific) THEN env[specific]
    ELSE Str(default)

\* The provider-specific variable and the default of the model identifier
ModelTiers(provider) ==
    CASE provider = Str(N_openai) -> <<"OPENAI_MODEL", Default.openai_model>>
      [] provider = Str(N_ollama) -> <<"OLLAMA_MODEL", Default.ollama_model>>
      [] provider = Str(N_kobold) -> <<"", Default.kobold_model>>

\* The provider-specific variable and the default of the base URL, where the
\* resolver has a default literal
UrlTiers(provider) ==
    CASE provider = Str(N_ollama) -> <<"OLLAMA_URL", Default.ollama_url>>
      [] provider = Str(N_kobold) -> <<"KOBOLD_URL", Default.kobold_url>>
      [] provider = Str(N_chatterai) -> <<"CHATTERAI_URL", Default.chatterai_url>>
      [] provider = Str(N_xtt) -> <<"XTT_API_URL", Default.xtt_url>>

LLMFieldsThreeTier(c) ==
    /\ c.provider \in {Str(N_openai), Str(N_ollama), Str(N_kobold)} =>
          c.model = ThreeTier("LLM_MODEL", ModelTiers(c.provider)[1],
                              ModelTiers(c.provider)[2])
    /\ IsSet("LLM_API_URL") => c.api_url = env["LLM_API_URL"]
    /\ c.provider \in {Str(N_ollama), Str(N_kobold)} /\ ~IsSet("OLLAMA_HOST") =>
          c.api_url = ThreeTier("LLM_API_URL", UrlTiers(c.provider)[1],
                                UrlTiers(c.provider)[2])

VoiceFieldsThreeTier(c) ==
    /\ IsSet("VOICE_API_URL") => c.api_url = env["VOICE_API_URL"]
    /\ c.provider \in {Str(N_chatterai), Str(N_xtt)} /\ ~IsSet("XTT_HOST") =>
          c.api_url = ThreeTier("VOICE_API_URL", UrlTiers(c.provider)[1],
                                UrlTiers(c.provider)[2])

\* C15: for every provider, the resolved model identifier and base URL are
\* the generic override (LLM_MODEL, LLM_API_URL, VOICE_API_URL) when it is
\* set, else the provider's own variable when set, else the default literal;
\* a set generic override is never passed over.
C15_GenericOverrideFirst ==
    Resolved =>
        /\ LLMFieldsThreeTier(resolved.main.llm)
        /\ LLMFieldsThreeTier(resolved.core.llm)
        /\ VoiceFieldsThreeTier(resolved.main.voice)
        /\ VoiceFieldsThreeTier(resolved.core.voice)

\* C16: in a deployment that sets only OPENAI_API_KEY, with the backend
\* answering, the openai voice provider is initialized against its default
\* base URL, not a null one, and the assistant starts.
C16_OpenAIOnlyDeploymentStarts ==
    (/\ stage = "started"
     /\ EnvSet = {"OPENAI_API_KEY"}
     /\ started.llm = "returned"
     /\ started.voice_probe = "ok200") =>
        /\ started.voice_class = "OpenAIVoiceProvider"
        /\ started.voice_api_url = Str(U_default)
        /\ started.ok

\* ------------------------------------------------------------------------
\* Dry-run validation
\* ------------------------------------------------------------------------
\* initialize returns False although the backend answers the probe with 200:
\* a field it requires before probing is missing
RejectsForMissingField(class, config) ==
    initialize(class, config, "ok200").ret = "False"

\* C17: validate_llm_config / validate_voice_config instantiate nothing,
\* return False for every unregistered name, and for a registered name return
\* True exactly when no field is missing that the provider's initialize
\* requires before its probe.
C17_ValidateAgreesWithInitialize ==
    (facCap \in {"validate_llm", "validate_voice"} /\ Requested.tag = "str") =>
        LET cap == IF facCap = "validate_llm" THEN "llm" ELSE "voice"
            name == Lower(Requested.v)
        IN  /\ facResult.instantiated = "none"
            /\ ~facResult.init_called
            /\ name \notin RegisteredNames(cap) => facResult.outcome = "invalid"
            /\ name \in RegisteredNames(cap) =>
                  (facResult.outcome = "valid" <=>
                     ~RejectsForMissingField(RegisteredClass(cap, name),
                                             facConfig))

\* ------------------------------------------------------------------------
\* Voice synthesis
\* ------------------------------------------------------------------------
\* text_to_speech has been called and has ended
Synthesized == tts.stage = "done"

\* C18: text_to_speech with a voice that is not among get_supported_voices()
\* sends the provider's default voice in place of the unrecognized one.
C18_UnknownVoiceFallsBack ==
    (/\ Synthesized
     /\ tts.voice_params.voice.tag = "str"
     /\ tts.voice_params.voice.v \notin Range(get_supported_voices(tts.class))) =>
        tts.payload.voice = DefaultVoice(tts.class, tts.model)

\* C19: on a response with a status other than 200, text_to_speech returns no
\* audio and fails with an error that carries the status and the message of
\* the backend; called by the orchestrator, nothing is handed to
\* _play_audio_with_animation.
C19_BackendErrorMeansNoAudio ==
    (/\ Synthesized
     /\ tts.backend.kind = "response"
     /\ tts.backend.status # 200) =>
        /\ tts.result.ret = "raise"
        /\ tts.result.audio = "none"
        /\ tts.result.exc.type = "Exception"
        /\ tts.result.exc.status = tts.backend.status
        /\ tts.result.exc.message = tts.backend.body
        /\ ~tts.played

\* The orchestrator's call met a 500
C19_Witness ==
    /\ Synthesized
    /\ tts.caller = "orchestrator"
    /\ tts.backend.status = 500
    /\ tts.result.exc.status = 500
    /\ ~tts.played

\* A config with every field, for a provider that probes its backend
FullConfig ==
    [provider |-> Absent, api_key |-> Str(K_key), api_url |-> Str(U_url),
     model |-> Str(M_model)]

\* C20: a transport failure inside a provider operation reaches the caller as
\* that operation's declared failure: initialize returns False, the response
\* stream yields an error chunk, text_to_speech fails with its synthesis
\* error; the transport exception itself is never what the caller receives.
C20_TransportFailuresAreContained ==
    /\ \A class \in {"KoboldProvider"} \cup VoiceClasses :
          initialize(class, FullConfig, "exception") = InitFalse
    /\ \A backend \in KoboldBackend :
          backend.kind = "connfail" =>
             Kobold_get_response_stream(backend) = <<ErrorChunk("connection")>>
    /\ (Synthesized /\ tts.backend.kind = "exception") =>
          /\ tts.result.ret = "raise"
          /\ tts.result.exc.type = "Exception"
          /\ tts.result.exc.type # tts.backend.body

\* ------------------------------------------------------------------------
\* The two resolvers side by side
\* ------------------------------------------------------------------------
\* C30: for every environment the resolver of main.py and the resolver of
\* core/config.py select the same language-model provider and the same voice
\* provider, and resolve the same base URL for each.
C30_ResolversAgree ==
    Resolved =>
        /\ resolved.detected.main_llm = resolved.detected.core_llm
        /\ resolved.detected.main_voice = resolved.detected.core_voice
        /\ resolved.main.llm.api_url = resolved.core.llm.api_url
        /\ resolved.main.voice.api_url = resolved.core.voice.api_url

\* ------------------------------------------------------------------------
\* The Kobold provider: replies, history and context truncation
\* ------------------------------------------------------------------------
IsPrefix(s, t) == Len(s) <= Len(t) /\ SubSeq(t, 1, Len(s)) = s

IsSuffix(s, t) ==
    Len(s) <= Len(t) /\ SubSeq(t, Len(t) - Len(s) + 1, Len(t)) = s

\* The last call was a generate request that the backend answered with a
\* text starting with the echoed role prefix
EchoedReply ==
    /\ kob.op = "get_response_stream"
    /\ kob.backend.kind = "ok"
    /\ StartsWith(Strip(kob.backend.text), AssistantTag)

\* C21: a reply that starts with the echoed "Assistant:" yields exactly one
\* text_complete chunk, done, whose text is the reply without that prefix
\* and without surrounding whitespace; the history entry stored for it is the
\* provider's own role prefix followed by that text, the echoed prefix is not
\* stored on top of it.
C21_EchoedPrefixIsStripped ==
    EchoedReply =>
        LET raw == Strip(kob.backend.text)
            text == Strip(SubSeq(raw, Len(AssistantTag) + 1, Len(raw)))
        IN  /\ kob.chunks = <<TextComplete(text, TRUE)>>
            /\ conversation_history # <<>>
            /\ conversation_history[Len(conversation_history)] =
                  AssistantPrefix \o text

\* "Assistant: a" came back for a message: "a" is returned and
\* "Assistant: a" is stored after the user entry
C21_Witness ==
    /\ EchoedReply
    /\ kob.backend.text = AssistantTag \o <<" ", "a">>
    /\ kob.chunks[1].text = <<"a">>
    /\ conversation_history = <<UserPrefix \o <<"x">>, AssistantPrefix \o <<"a">>>>

\* C22: after end_session the conversation history is empty, so nothing said
\* in the ended session reaches the backend with a later message.
C22_EndSessionClearsHistory ==
    kob.op = "end_session" => conversation_history = <<>>

\* The list elements of a serialized prompt, and its tails
PromptTails(full) ==
    LET lines == Split(full)
    IN  {Join(SubSeq(lines, i, Len(lines))) : i \in 1..Len(lines)}

\* What the truncation step owes: the prompt is a tail of the serialized
\* conversation that begins at an element boundary; it is within budget or
\* has exactly two elements; and every longer tail is over budget with more
\* than two elements (removal stopped as soon as it could).
TruncationContract(full, prompt, max_context) ==
    /\ IsSuffix(prompt, full)
    /\ prompt \in PromptTails(full)
    /\ Len(prompt) <= max_context \/ Len(Split(prompt)) = 2
    /\ \A q \in PromptTails(full) :
          Len(q) > Len(prompt) =>
             Len(q) > max_context /\ Len(Split(q)) > 2

\* C23: the prompt a generate request sends is a suffix of the full
\* serialized conversation, reached by removing elements from the oldest end
\* one at a time and stopping as soon as the length is within max_context or
\* two elements remain.
C23_TruncationKeepsASuffix ==
    [][kob'.op = "get_response_stream" =>
          TruncationContract(Join(conversation_history) \o AssistantSuffix,
                             kobold_prompt', kob.max_context)]_vars

\* A request whose prompt lost its oldest part and fits the budget
C23_Witness ==
    /\ kob.op = "get_response_stream"
    /\ Len(conversation_history) >= 2
    /\ Len(kobold_prompt) < Len(Join(conversation_history))
    /\ Len(kobold_prompt) <= kob.max_context
    /\ Len(Split(kobold_prompt)) > 2

\* The prompt holds each utterance of the history entirely or not at all, and
\* the most recent user message entirely
WholeTurns(history, prompt) ==
    history # <<>> =>
       \E k \in 1..Len(history) :
          /\ prompt = Join(SubSeq(history, k, Len(history))) \o AssistantSuffix
          /\ \E i \in k..Len(history) : StartsWith(history[i], UserPrefix)

\* C24: truncation removes whole turns only, also when utterances contain
\* line breaks, and the most recent user message always survives entirely.
C24_TruncationRemovesWholeTurns ==
    [][kob'.op = "get_response_stream" =>
          WholeTurns(conversation_history, kobold_prompt')]_vars

\* C25: on the serialized conversation as it stands, the truncation step
\* leaves a prompt within max_context unchanged, gives the same result when
\* applied twice as when applied once, and never leaves fewer than two
\* elements of a prompt that had at least two.
C25_TruncationIdempotent ==
    LET p == Join(conversation_history) \o AssistantSuffix
        m == kob.max_context
        once == Truncate(p, m)
    IN  /\ Len(p) <= m => once = p
        /\ Truncate(once, m) = once
        /\ Truncate(kobold_prompt, m) = kobold_prompt
        /\ Len(Split(p)) >= 2 => Len(Split(once)) >= 2

\* A request was truncated down to the two-element floor and is still over
\* budget
C25_Witness ==
    /\ kob.op = "get_response_stream"
    /\ Len(kobold_prompt) > kob.max_context
    /\ Len(Split(kobold_prompt)) = 2
    /\ Len(conversation_history) >= 2

\* C26: between two start_session calls the history only grows at its end:
\* send_message, get_response_stream (whatever the backend does, truncated
\* prompt or not) and end_session leave the earlier history as a prefix.
C26_HistoryAppendOnly ==
    [][kob'.op # "start_session" =>
          IsPrefix(conversation_history, conversation_history')]_vars

\* A request was sent truncated and the history still holds every entry
C26_Witness ==
    /\ kob.op = "get_response_stream"
    /\ Len(conversation_history) >= 3
    /\ Len(kobold_prompt) < Len(Join(conversation_history))
    /\ conversation_history[1] = UserPrefix \o <<"x">>

\* C29: in the Kobold history user and assistant entries alternate, starting
\* with a user entry: odd positions hold user entries, even positions
\* assistant entries, whatever way the earlier turns ended.
C29_HistoryAlternates ==
    \A i \in DOMAIN conversation_history :
        IF i % 2 = 1
        THEN StartsWith(conversation_history[i], UserPrefix)
        ELSE StartsWith(conversation_history[i], AssistantPrefix)

\* ------------------------------------------------------------------------
\* Turn-local state of the orchestrator
\* ------------------------------------------------------------------------
\* C27: when a turn's handler starts to consume chunks its accumulator is
\* empty, however the caller's previous turn ended; throughout the turn the
\* accumulator is the concatenation of this turn's text_delta chunks, and
\* every text_to_speech input of the turn is made of this turn's chunks.
C27_AccumulatorIsTurnLocal ==
    \A t \in Tasks :
        LET cs == ChunkSeq(trace[t])
        IN  /\ (pc[t] \in {"streaming", "complete"} /\ cs = <<>>)
                  => complete_text[t] = <<>>
            /\ complete_text[t] = DeltaConcat(cs)
            /\ \A i \in DOMAIN SpeechOf(trace[t]) :
                  LET spoken == SpeechOf(trace[t])[i].text
                  IN  IF RunsHandler(trace[t], "streaming")
                      THEN spoken = Strip(DeltaConcat(cs))
                      ELSE \E j \in DOMAIN cs :
                              cs[j].type = "text_complete" /\ cs[j].text = spoken

\* A second streaming turn is about to consume its first chunk after a turn
\* that failed
C27_Witness ==
    /\ turn = 2
    /\ pc["run"] = "streaming"
    /\ ChunkSeq(trace["run"]) = <<>>
    /\ outcomes # <<>>
    /\ outcomes[1] \in Failures
    /\ complete_text["run"] = <<>>

\* ------------------------------------------------------------------------
\* Sessions
\* ------------------------------------------------------------------------
\* C28: whenever the orchestrator sends a message (a turn begins), the
\* provider has an open session: a start_session was made on it and no
\* end_session since. A turn that begins after shutdown() starts a new
\* session first.
C28_SendsOnlyInsideASession ==
    [][turn' # turn => provider_session' = "open"]_vars

====
